---- MODULE Spec2Model ----
(***************************************************************************)
(* A model of the run-length encoded causal graph (josephg/causal-graph):  *)
(* the doubly indexed store (entries / agentToVersion / heads), the        *)
(* priority-queue graph tools (diff, findDominators, versionContainsLV)    *)
(* and the delta codecs used to merge one peer's graph into another's.     *)
(* Lists are TLA+ sequences (1-based); every index computed by the code    *)
(* is kept 0-based, as in the source, and shifted by one on access.        *)
(***************************************************************************)
EXTENDS Integers, Sequences, FiniteSets, TLC

VARIABLES docs, nextSeq, lastOp, rleList, rleOp, trav

vars == <<docs, nextSeq, lastOp, rleList, rleOp, trav>>

\* The run-length encoded list of keyed spans, and the call made on it last.
rleVars == <<rleList, rleOp>>

\* ------------------------------------------------------------- bounds
\* Seqs handed out by the harness over all agents (holes included).
MaxSeq == 3

\* The harness appends runs of 1..3 changes (randInt(3) + 1).
MaxRunLen == 3

Agents == {"a", "b"}
Peers == {1, 2}
HoleSizes == {0, 1}

\* ------------------------------------------------------------- helpers
None == <<>>
Some(x) == <<x>>

min2(a, b) == IF a < b THEN a ELSE b
max2(a, b) == IF a > b THEN a ELSE b

RECURSIVE InsertSorted(_, _)
InsertSorted(s, x) ==
  IF Len(s) = 0 THEN <<x>>
  ELSE IF x < s[1] THEN <<x>> \o s
  ELSE <<s[1]>> \o InsertSorted(Tail(s), x)

RECURSIVE sortVersions(_)
sortVersions(v) ==
  IF Len(v) = 0 THEN <<>>
  ELSE InsertSorted(sortVersions(SubSeq(v, 1, Len(v) - 1)), v[Len(v)])

includes(s, x) == \E i \in 1..Len(s) : s[i] = x

Reverse(s) == [i \in 1..Len(s) |-> s[Len(s) + 1 - i]]

\* const x = <value>; <the rest, F, reading x>: the value is computed once.
With(x, F(_)) == F(x)

\* binary-search: index of an element comparing 0, else -(insertion point) - 1.
\* cmps[i] is the comparator's result for the i-th element.
RECURSIVE bsLoop(_, _, _)
bsLoop(cmps, low, high) ==
  IF low > high THEN -low - 1
  ELSE LET mid == (low + high) \div 2
           c == cmps[mid + 1]
       IN IF c < 0 THEN bsLoop(cmps, mid + 1, high)
          ELSE IF c > 0 THEN bsLoop(cmps, low, mid - 1)
          ELSE mid

bs(cmps) == bsLoop(cmps, 0, Len(cmps) - 1)

\* ------------------------------------------------------------- utils.ts
advanceFrontierDropsNothing(frontier, vLast, parents) ==
  sortVersions(Append(frontier, vLast))

advanceFrontierOnlyNew(frontier, vLast, parents) == <<vLast>>

advanceFrontier(frontier, vLast, parents) ==
  sortVersions(Append(SelectSeq(frontier, LAMBDA v : ~includes(parents, v)), vLast))

\* ------------------------------------------------------------- types.ts
cgKeyStart(e) == e.version
cgKeyEnd(e) == e.vEnd

tryAppendEntriesNever(a, b) == [ok |-> FALSE, item |-> a]

tryAppendEntries(a, b) ==
  LET canAppend == /\ b.version = a.vEnd
                   /\ a.agent = b.agent
                   /\ a.seq + (a.vEnd - a.version) = b.seq
                   /\ Len(b.parents) = 1 /\ b.parents[1] = a.vEnd - 1
  IN [ok |-> canAppend, item |-> IF canAppend THEN [a EXCEPT !.vEnd = b.vEnd] ELSE a]

clientKeyStart(e) == e.seq
clientKeyEnd(e) == e.seqEnd

tryAppendClientEntryAnyVersion(a, b) ==
  LET canAppend == b.seq = a.seqEnd
  IN [ok |-> canAppend, item |-> IF canAppend THEN [a EXCEPT !.seqEnd = b.seqEnd] ELSE a]

tryAppendClientEntry(a, b) ==
  LET canAppend == /\ b.seq = a.seqEnd
                   /\ b.version = a.version + (a.seqEnd - a.seq)
  IN [ok |-> canAppend, item |-> IF canAppend THEN [a EXCEPT !.seqEnd = b.seqEnd] ELSE a]

\* cgEntryRLE / clientEntryRLE: the two halves of a split.  err: the code
\* throws 'Invalid offset'.
cgTruncateKeepingLeft(item, offset) == [item EXCEPT !.vEnd = item.version + offset]

cgTruncateKeepingRightKeepsParents(item, offset) ==
  [item |-> [item EXCEPT !.version = @ + offset, !.seq = @ + offset],
   err |-> offset < 1]

cgTruncateKeepingRight(item, offset) ==
  [item |-> [item EXCEPT !.version = @ + offset, !.seq = @ + offset,
                         !.parents = <<item.version + offset - 1>>],
   err |-> offset < 1]

clientTruncateKeepingLeft(item, offset) == [item EXCEPT !.seqEnd = item.seq + offset]

clientTruncateKeepingRight(item, offset) ==
  [item EXCEPT !.seq = @ + offset, !.version = @ + offset]

\* ------------------------------------------------------------- rlelist.ts
rlePush(list, tryAppend(_, _), newItem) ==
  IF Len(list) = 0 THEN <<newItem>>
  ELSE LET r == tryAppend(list[Len(list)], newItem)
       IN IF r.ok THEN [list EXCEPT ![Len(list)] = r.item]
          ELSE Append(list, newItem)

rleFindIdxRaw(list, keyStart(_), keyEnd(_), needle) ==
  bs([i \in 1..Len(list) |->
        IF needle < keyStart(list[i]) THEN 1
        ELSE IF needle >= keyEnd(list[i]) THEN -1
        ELSE 0])

\* Result: the new list, and err = TRUE when the code throws
\* 'Invalid state - item already exists' (the list is then untouched).
rleInsert(list, keyStart(_), keyEnd(_), tryAppend(_, _), newItem) ==
  LET newKey == keyStart(newItem) IN
  IF Len(list) = 0 \/ newKey >= keyStart(list[Len(list)])
  THEN [list |-> rlePush(list, tryAppend, newItem), err |-> FALSE]
  ELSE With(rleFindIdxRaw(list, keyStart, keyEnd, newKey), LAMBDA found :
       IF found >= 0 THEN [list |-> list, err |-> TRUE]
       ELSE LET idx == -found - 1 IN
            IF idx > 0 /\ tryAppend(list[idx], newItem).ok
            THEN [list |-> [list EXCEPT ![idx] = tryAppend(list[idx], newItem).item],
                  err |-> FALSE]
            ELSE IF idx < Len(list) - 1 /\ tryAppend(newItem, list[idx + 1]).ok
            THEN [list |-> [list EXCEPT ![idx + 1] = tryAppend(newItem, list[idx + 1]).item],
                  err |-> FALSE]
            ELSE [list |-> SubSeq(list, 1, idx) \o <<newItem>> \o SubSeq(list, idx + 1, Len(list)),
                  err |-> FALSE])

\* simpleKeyedSpanMethods: spans {key, length, val}.
spanKeyStart(item) == item.key
spanKeyEnd(item) == item.key + item.length

spanTryAppend(to, from) ==
  IF to.val = from.val /\ to.key + to.length = from.key
  THEN [ok |-> TRUE, item |-> [to EXCEPT !.length = @ + from.length]]
  ELSE [ok |-> FALSE, item |-> to]

spanTruncateKeepingLeft(item, offset) == [item EXCEPT !.length = offset]

spanTruncateKeepingRight(item, offset) ==
  [item EXCEPT !.length = @ - offset, !.key = @ + offset]

\* rleInsert(list, simpleKeyedSpanMethods, newItem).
spanInsert(l, newItem) == rleInsert(l, spanKeyStart, spanKeyEnd, spanTryAppend, newItem)

\* rleIterRangeRaw over simple keyed spans: the 0-based indexes of the items
\* it yields, from idx on.  err: the code's assert(itemEnd > startKey) fails.
RECURSIVE iterRawFrom(_, _, _, _)
iterRawFrom(l, idx, startKey, endKey) ==
  IF idx >= Len(l) \/ spanKeyStart(l[idx + 1]) >= endKey
  THEN [idxs |-> <<>>, err |-> FALSE]
  ELSE IF ~(spanKeyEnd(l[idx + 1]) > startKey)
  THEN [idxs |-> <<>>, err |-> TRUE]
  ELSE With(iterRawFrom(l, idx + 1, startKey, endKey), LAMBDA rest :
         [idxs |-> <<idx>> \o rest.idxs, err |-> rest.err])

rleIterRangeRaw(l, startKey, endKey) ==
  IF startKey = endKey THEN [idxs |-> <<>>, err |-> FALSE]
  ELSE LET found == rleFindIdxRaw(l, spanKeyStart, spanKeyEnd, startKey)
       IN iterRawFrom(l, IF found < 0 THEN -found - 1 ELSE found, startKey, endKey)

\* The item rleIterRange yields for list item `item`: trimmed at both ends.
clipItemLeftOnly(item, startKey, endKey) ==
  LET itemStart == spanKeyStart(item)
  IN IF itemStart < startKey
     THEN spanTruncateKeepingRight(item, startKey - itemStart)
     ELSE item

clipItem(item, startKey, endKey) ==
  LET itemStart == spanKeyStart(item)
      left == IF itemStart < startKey
              THEN spanTruncateKeepingRight(item, startKey - itemStart)
              ELSE item
      start2 == IF itemStart < startKey THEN startKey ELSE itemStart
  IN IF spanKeyEnd(left) > endKey
     THEN spanTruncateKeepingLeft(left, endKey - start2)
     ELSE left

\* rleIterRange: the items yielded, and the list as the iteration leaves it
\* (every truncation is applied to a clone, so no item of the list is written).
rleIterRange(l, startKey, endKey) ==
  LET raw == rleIterRangeRaw(l, startKey, endKey)
  IN [yielded |-> [k \in 1..Len(raw.idxs) |-> clipItem(l[raw.idxs[k] + 1], startKey, endKey)],
      list |-> l, err |-> raw.err]

\* ------------------------------------------------------------- causal-graph.ts
createCG == [heads |-> <<>>, entries |-> <<>>, agentToVersion |-> [a \in Agents |-> <<>>]]

nextLV(cg) == IF Len(cg.entries) = 0 THEN 0 ELSE cg.entries[Len(cg.entries)].vEnd

\* nextSeqForAgent reading the first client entry where the last is meant.
nextSeqForAgentFirst(cg, agent) ==
  LET entries == cg.agentToVersion[agent]
  IN IF Len(entries) = 0 THEN 0 ELSE entries[1].seqEnd

nextSeqForAgent(cg, agent) ==
  LET entries == cg.agentToVersion[agent]
  IN IF Len(entries) = 0 THEN 0 ELSE entries[Len(entries)].seqEnd

findClientEntryRaw(cg, agent, seq) ==
  LET av == cg.agentToVersion[agent] IN
  IF Len(av) = 0 THEN None
  ELSE With(rleFindIdxRaw(av, clientKeyStart, clientKeyEnd, seq), LAMBDA result :
         IF result < 0 THEN None ELSE Some(av[result + 1]))

findClientEntry(cg, agent, seq) ==
  With(findClientEntryRaw(cg, agent, seq), LAMBDA clientEntry :
    IF clientEntry = None THEN None
    ELSE Some([entry |-> clientEntry[1], offset |-> seq - clientEntry[1].seq]))

findClientEntryTrimmed(cg, agent, seq) ==
  With(findClientEntry(cg, agent, seq), LAMBDA result :
    IF result = None THEN None
    ELSE LET clientEntry == result[1].entry
             offset == result[1].offset
         IN IF offset = 0 THEN Some(clientEntry)
            ELSE Some([seq |-> seq, seqEnd |-> clientEntry.seqEnd,
                       version |-> clientEntry.version + offset]))

hasVersion(cg, agent, seq) == findClientEntryRaw(cg, agent, seq) # None

\* Variants of the trimming loop, each with one plausible slip.
RECURSIVE addTrimParentAtEnd(_, _, _, _, _)
addTrimParentAtEnd(cg, agent, seqStart, seqEnd, parents) ==
  With(findClientEntryTrimmed(cg, agent, seqStart), LAMBDA existingEntry :
  IF existingEntry = None
  THEN [known |-> FALSE, seqStart |-> seqStart, parents |-> parents]
  ELSE IF existingEntry[1].seqEnd >= seqEnd
  THEN [known |-> TRUE, seqStart |-> seqStart, parents |-> parents]
  ELSE addTrimParentAtEnd(cg, agent, existingEntry[1].seqEnd, seqEnd,
               <<existingEntry[1].version
                   + (existingEntry[1].seqEnd - existingEntry[1].seq)>>))

RECURSIVE addTrimStrict(_, _, _, _, _)
addTrimStrict(cg, agent, seqStart, seqEnd, parents) ==
  With(findClientEntryTrimmed(cg, agent, seqStart), LAMBDA existingEntry :
  IF existingEntry = None
  THEN [known |-> FALSE, seqStart |-> seqStart, parents |-> parents]
  ELSE IF existingEntry[1].seqEnd > seqEnd
  THEN [known |-> TRUE, seqStart |-> seqStart, parents |-> parents]
  ELSE addTrimStrict(cg, agent, existingEntry[1].seqEnd, seqEnd,
               <<existingEntry[1].version
                   + (existingEntry[1].seqEnd - existingEntry[1].seq) - 1>>))

RECURSIVE addTrimKeepsParents(_, _, _, _, _)
addTrimKeepsParents(cg, agent, seqStart, seqEnd, parents) ==
  With(findClientEntryTrimmed(cg, agent, seqStart), LAMBDA existingEntry :
  IF existingEntry = None
  THEN [known |-> FALSE, seqStart |-> seqStart, parents |-> parents]
  ELSE IF existingEntry[1].seqEnd >= seqEnd
  THEN [known |-> TRUE, seqStart |-> seqStart, parents |-> parents]
  ELSE addTrimKeepsParents(cg, agent, existingEntry[1].seqEnd, seqEnd, parents))

\* The trimming loop of add: known = TRUE when the whole span is already in
\* the graph, else the start and the parents the insertion goes on with.
RECURSIVE addTrim(_, _, _, _, _)
addTrim(cg, agent, seqStart, seqEnd, parents) ==
  With(findClientEntryTrimmed(cg, agent, seqStart), LAMBDA existingEntry :
  IF existingEntry = None
  THEN [known |-> FALSE, seqStart |-> seqStart, parents |-> parents]
  ELSE IF existingEntry[1].seqEnd >= seqEnd
  THEN [known |-> TRUE, seqStart |-> seqStart, parents |-> parents]
  ELSE addTrim(cg, agent, existingEntry[1].seqEnd, seqEnd,
               <<existingEntry[1].version
                   + (existingEntry[1].seqEnd - existingEntry[1].seq) - 1>>))

\* add without its trimming loop: the span is inserted as given.
addNoTrim(cg, agent, seqStart0, seqEnd, parents0) ==
  LET version == nextLV(cg)
      entry == [version |-> version, vEnd |-> version + (seqEnd - seqStart0),
                agent |-> agent, seq |-> seqStart0, parents |-> parents0]
  IN With(rlePush(cg.entries, tryAppendEntries, entry), LAMBDA pushed :
     With(rleInsert(cg.agentToVersion[agent], clientKeyStart, clientKeyEnd,
                    tryAppendClientEntry,
                    [seq |-> seqStart0, seqEnd |-> seqEnd, version |-> version]),
          LAMBDA ins :
     IF ins.err
     THEN [cg |-> [cg EXCEPT !.entries = pushed], ret |-> None, err |-> TRUE]
     ELSE [cg |-> [entries |-> pushed,
                   agentToVersion |-> [cg.agentToVersion EXCEPT ![agent] = ins.list],
                   heads |-> advanceFrontier(cg.heads, entry.vEnd - 1, parents0)],
           ret |-> Some(entry), err |-> FALSE]))

\* add calls the list helpers under their earlier names (pushRLEList,
\* insertRLEList); rlelist.ts has them as rlePush and rleInsert.
\* Result: the graph after the call, ret = the inserted entry or None (null),
\* err = TRUE when rleInsert throws (entries is then already pushed).
add(cg, agent, seqStart0, seqEnd, parents0) ==
  With(addTrim(cg, agent, seqStart0, seqEnd, parents0), LAMBDA t :
     IF t.known THEN [cg |-> cg, ret |-> None, err |-> FALSE]
     ELSE LET version == nextLV(cg)
              seqStart == t.seqStart
              parents == t.parents
              len == seqEnd - seqStart
              vEnd == version + len
              entry == [version |-> version, vEnd |-> vEnd, agent |-> agent,
                        seq |-> seqStart, parents |-> parents]
          IN With(rlePush(cg.entries, tryAppendEntries, entry), LAMBDA pushed :
             With(rleInsert(cg.agentToVersion[agent], clientKeyStart, clientKeyEnd,
                            tryAppendClientEntry,
                            [seq |-> seqStart, seqEnd |-> seqEnd, version |-> version]),
                  LAMBDA ins :
             IF ins.err
             THEN [cg |-> [cg EXCEPT !.entries = pushed], ret |-> None, err |-> TRUE]
             ELSE [cg |-> [entries |-> pushed,
                           agentToVersion |-> [cg.agentToVersion EXCEPT ![agent] = ins.list],
                           heads |-> advanceFrontier(cg.heads, vEnd - 1, parents)],
                   ret |-> Some(entry), err |-> FALSE])))

rawFindEntryContaining(cg, v) ==
  cg.entries[rleFindIdxRaw(cg.entries, cgKeyStart, cgKeyEnd, v) + 1]

findEntryContaining(cg, v) ==
  With(rawFindEntryContaining(cg, v), LAMBDA e : [entry |-> e, offset |-> v - e.version])

\* rawFindEntryContaining (and with it findEntryContaining, lvToRaw) throws
\* 'Invalid or unknown local version'.
findEntryContainingThrows(cg, v) ==
  rleFindIdxRaw(cg.entries, cgKeyStart, cgKeyEnd, v) < 0

\* lvToRawWithParents giving every LV of a run the run's stored parents.
lvToRawWithParentsStored(cg, v) ==
  With(findEntryContaining(cg, v), LAMBDA f :
    [agent |-> f.entry.agent, seq |-> f.entry.seq + f.offset,
     parents |-> f.entry.parents])

lvToRawWithParents(cg, v) ==
  With(findEntryContaining(cg, v), LAMBDA f :
    [agent |-> f.entry.agent, seq |-> f.entry.seq + f.offset,
     parents |-> IF f.offset = 0 THEN f.entry.parents ELSE <<v - 1>>])

lvToRaw(cg, v) ==
  With(findEntryContaining(cg, v), LAMBDA f : <<f.entry.agent, f.entry.seq + f.offset>>)

lvToRawList(cg, parents) == [i \in 1..Len(parents) |-> lvToRaw(cg, parents[i])]

\* tryRawToLV reading the client entry untrimmed.
tryRawToLVUntrimmed(cg, agent, seq) ==
  With(findClientEntryRaw(cg, agent, seq), LAMBDA clientEntry :
    IF clientEntry = None THEN None ELSE Some(clientEntry[1].version))

tryRawToLV(cg, agent, seq) ==
  With(findClientEntryTrimmed(cg, agent, seq), LAMBDA clientEntry :
    IF clientEntry = None THEN None ELSE Some(clientEntry[1].version))

\* rawToLV throws 'Unknown ID' where tryRawToLV gives None.
rawToLV(cg, agent, seq) == tryRawToLV(cg, agent, seq)[1]

\* rawToLV throws 'Unknown ID'.
rawToLVThrows(cg, agent, seq) == findClientEntryTrimmed(cg, agent, seq) = None

\* The LVs at the start and end of the span; err: 'Unknown ID' is thrown.
rawToLVSpan(cg, agent, seq) ==
  With(findClientEntry(cg, agent, seq), LAMBDA e :
    IF e = None THEN [err |-> TRUE, span |-> <<>>]
    ELSE [err |-> FALSE,
          span |-> <<e[1].entry.version + e[1].offset,
                     e[1].entry.seqEnd - e[1].entry.seq + e[1].entry.version>>])

rawToLVList(cg, parents) ==
  [i \in 1..Len(parents) |-> rawToLV(cg, parents[i][1], parents[i][2])]

\* ------------------------------------------------------------- priorityqueuejs
\* A max-heap of numbers, kept as a descending list: deq takes the head.
RECURSIVE enq(_, _)
enq(queue, x) ==
  IF Len(queue) = 0 THEN <<x>>
  ELSE IF x >= queue[1] THEN <<x>> \o queue
  ELSE <<queue[1]>> \o enq(Tail(queue), x)

RECURSIVE enqAll(_, _)
enqAll(queue, xs) ==
  IF Len(xs) = 0 THEN queue ELSE enqAll(enq(queue, xs[1]), Tail(xs))

\* ------------------------------------------------------------- tools.ts
FlagA == 0
FlagB == 1
FlagShared == 2

RECURSIVE dropWhileGE(_, _)
dropWhileGE(queue, bound) ==
  IF Len(queue) > 0 /\ queue[1] >= bound THEN dropWhileGE(Tail(queue), bound) ELSE queue

\* versionContainsLV's loop missing a target that starts the run visited.
RECURSIVE containsLoopStrict(_, _, _)
containsLoopStrict(cg, queue, target) ==
  IF Len(queue) = 0 THEN FALSE
  ELSE With(rawFindEntryContaining(cg, queue[1]), LAMBDA e :
          IF queue[1] = target THEN TRUE
          ELSE IF e.version < target THEN TRUE
          ELSE IF includes(e.parents, target) THEN TRUE
          ELSE containsLoopStrict(cg,
                 enqAll(dropWhileGE(Tail(queue), e.version),
                        SelectSeq(e.parents, LAMBDA p : p > target)),
                 target))

RECURSIVE containsLoop(_, _, _)
containsLoop(cg, queue, target) ==
  IF Len(queue) = 0 THEN FALSE
  ELSE With(rawFindEntryContaining(cg, queue[1]), LAMBDA e :
          IF queue[1] = target THEN TRUE
          ELSE IF e.version <= target THEN TRUE
          ELSE IF includes(e.parents, target) THEN TRUE
          ELSE containsLoop(cg,
                 enqAll(dropWhileGE(Tail(queue), e.version),
                        SelectSeq(e.parents, LAMBDA p : p > target)),
                 target))

versionContainsLV(cg, frontier, target) ==
  IF includes(frontier, target) THEN TRUE
  ELSE containsLoop(cg, enqAll(<<>>, SelectSeq(frontier, LAMBDA v : v > target)), target)

shr1(x) == x \div 2

\* The inner loop of findDominators2: inputs of the entry just visited that
\* are still queued are reported as dominated.
RECURSIVE domDrain(_, _, _, _)
domDrain(queue, bound, out, remaining) ==
  IF Len(queue) > 0 /\ queue[1] >= bound
  THEN IF queue[1] % 2 = 0
       THEN domDrain(Tail(queue), bound,
                     Append(out, [v |-> shr1(queue[1]), isDominator |-> FALSE]),
                     remaining - 1)
       ELSE domDrain(Tail(queue), bound, out, remaining)
  ELSE [queue |-> queue, out |-> out, remaining |-> remaining]

RECURSIVE domLoop(_, _, _, _)
domLoop(cg, queue, out, inputsRemaining) ==
  IF ~(Len(queue) > 0 /\ inputsRemaining > 0) THEN out
  ELSE LET vEnc == queue[1]
           isInput == (vEnc % 2) = 0
           v == shr1(vEnc)
           out1 == IF isInput THEN Append(out, [v |-> v, isDominator |-> TRUE]) ELSE out
           rem1 == IF isInput THEN inputsRemaining - 1 ELSE inputsRemaining
       IN With(rawFindEntryContaining(cg, v), LAMBDA e :
          With(domDrain(Tail(queue), e.version * 2, out1, rem1), LAMBDA d :
          domLoop(cg,
                  enqAll(d.queue, [i \in 1..Len(e.parents) |-> e.parents[i] * 2 + 1]),
                  d.out, d.remaining)))

\* The callbacks of findDominators2, in call order.
findDominators2(cg, versions) ==
  IF Len(versions) = 0 THEN <<>>
  ELSE IF Len(versions) = 1 THEN <<[v |-> versions[1], isDominator |-> TRUE]>>
  ELSE IF Len(versions) = 2
  THEN IF versions[1] = versions[2]
       THEN <<[v |-> versions[1], isDominator |-> TRUE],
              [v |-> versions[1], isDominator |-> FALSE]>>
       ELSE LET v0 == min2(versions[1], versions[2])
                v1 == max2(versions[1], versions[2])
            IN <<[v |-> v1, isDominator |-> TRUE],
                 [v |-> v0, isDominator |-> ~versionContainsLV(cg, <<v1>>, v0)]>>
  ELSE domLoop(cg, enqAll(<<>>, [i \in 1..Len(versions) |-> versions[i] * 2]),
               <<>>, Len(versions))

\* findDominators keeping every version reported, dominator or not.
findDominatorsUnfiltered(cg, versions) ==
  IF Len(versions) <= 1 THEN versions
  ELSE With(findDominators2(cg, versions),
            LAMBDA cbs : Reverse([i \in 1..Len(cbs) |-> cbs[i].v]))

findDominators(cg, versions) ==
  IF Len(versions) <= 1 THEN versions
  ELSE With(SelectSeq(findDominators2(cg, versions), LAMBDA c : c.isDominator),
            LAMBDA cbs : Reverse([i \in 1..Len(cbs) |-> cbs[i].v]))

\* findDominators2 on LVs of any size. 2^30 is the first LV whose queued value
\* 2v no longer fits the signed 32-bit integer that >> works on.
Pow30 == 1073741824

\* A queued value 2v + bit, held as its half and its low bit (2v itself need
\* not fit the integers of the checker): bit 0 marks an input.
encode(v, bit) == [half |-> v, bit |-> bit]

\* vEnc >> 1 for vEnc = 2 * half + bit with half < 2^31: ToInt32 wraps vEnc
\* modulo 2^32 into [-2^31, 2^31), and the shift halves it rounding down.
shr1Wide(vEnc) ==
  IF vEnc.half < Pow30 THEN vEnc.half ELSE (vEnc.half - Pow30) - Pow30

\* The max-heap of queued values: the greater 2 * half + bit first.
RECURSIVE enqWide(_, _)
enqWide(queue, x) ==
  IF Len(queue) = 0 THEN <<x>>
  ELSE IF x.half > queue[1].half \/ (x.half = queue[1].half /\ x.bit >= queue[1].bit)
  THEN <<x>> \o queue
  ELSE <<queue[1]>> \o enqWide(Tail(queue), x)

RECURSIVE enqAllWide(_, _)
enqAllWide(queue, xs) ==
  IF Len(xs) = 0 THEN queue ELSE enqAllWide(enqWide(queue, xs[1]), Tail(xs))

\* The inner loop: queue.peek() >= e.version * 2.
RECURSIVE domDrainWide(_, _, _, _)
domDrainWide(queue, version, out, remaining) ==
  IF Len(queue) > 0 /\ queue[1].half >= version
  THEN IF queue[1].bit = 0
       THEN domDrainWide(Tail(queue), version,
                         Append(out, [v |-> shr1Wide(queue[1]), isDominator |-> FALSE]),
                         remaining - 1)
       ELSE domDrainWide(Tail(queue), version, out, remaining)
  ELSE [queue |-> queue, out |-> out, remaining |-> remaining]

\* Result: the callbacks made, and err = TRUE when rawFindEntryContaining
\* throws 'Invalid or unknown local version' for the decoded v.
RECURSIVE domLoopWide(_, _, _, _)
domLoopWide(cg, queue, out, inputsRemaining) ==
  IF ~(Len(queue) > 0 /\ inputsRemaining > 0) THEN [out |-> out, err |-> FALSE]
  ELSE LET vEnc == queue[1]
           isInput == vEnc.bit = 0
           v == shr1Wide(vEnc)
           out1 == IF isInput THEN Append(out, [v |-> v, isDominator |-> TRUE]) ELSE out
           rem1 == IF isInput THEN inputsRemaining - 1 ELSE inputsRemaining
       IN IF findEntryContainingThrows(cg, v) THEN [out |-> out1, err |-> TRUE]
          ELSE With(rawFindEntryContaining(cg, v), LAMBDA e :
               With(domDrainWide(Tail(queue), e.version, out1, rem1), LAMBDA d :
               domLoopWide(cg,
                           enqAllWide(d.queue,
                                      [i \in 1..Len(e.parents) |-> encode(e.parents[i], 1)]),
                           d.out, d.remaining)))

\* findDominators for a list of three or more versions (the lists that reach
\* the queue). Result: the list returned, err = TRUE when the call throws.
findDominatorsWide(cg, versions) ==
  With(domLoopWide(cg, enqAllWide(<<>>, [i \in 1..Len(versions) |-> encode(versions[i], 0)]),
                   <<>>, Len(versions)),
       LAMBDA r :
    With(SelectSeq(r.out, LAMBDA c : c.isDominator), LAMBDA cbs :
      [ret |-> Reverse([i \in 1..Len(cbs) |-> cbs[i].v]), out |-> r.out, err |-> r.err]))

revRangeTryAppend(r1, r2) ==
  IF r1[1] = r2[2] THEN [ok |-> TRUE, item |-> <<r2[1], r1[2]>>]
  ELSE [ok |-> FALSE, item |-> r1]

pushReversedRLE(list, start, end) == rlePush(list, revRangeTryAppend, <<start, end>>)

\* The state of diff's loop: the heap, the flags map, numShared, both
\* outputs (still reversed) and err ('end < start' thrown by markRun).
diffEnqNoUpgrade(st, v, flag) ==
  IF v \notin DOMAIN st.flags
  THEN [st EXCEPT !.queue = enq(st.queue, v),
                  !.flags = (v :> flag) @@ st.flags,
                  !.numShared = IF flag = FlagShared THEN @ + 1 ELSE @]
  ELSE st

diffEnq(st, v, flag) ==
  IF v \notin DOMAIN st.flags
  THEN [st EXCEPT !.queue = enq(st.queue, v),
                  !.flags = (v :> flag) @@ st.flags,
                  !.numShared = IF flag = FlagShared THEN @ + 1 ELSE @]
  ELSE IF flag # st.flags[v] /\ st.flags[v] # FlagShared
  THEN [st EXCEPT !.flags = (v :> FlagShared) @@ st.flags,
                  !.numShared = @ + 1]
  ELSE st

RECURSIVE diffEnqAll(_, _, _)
diffEnqAll(st, vs, flag) ==
  IF Len(vs) = 0 THEN st ELSE diffEnqAll(diffEnq(st, vs[1], flag), Tail(vs), flag)

markRun(st, start, endInclusive, flag) ==
  IF endInclusive < start THEN [st EXCEPT !.err = TRUE]
  ELSE IF flag = FlagShared THEN st
  ELSE IF flag = FlagA
  THEN [st EXCEPT !.aOnly = pushReversedRLE(st.aOnly, start, endInclusive + 1)]
  ELSE [st EXCEPT !.bOnly = pushReversedRLE(st.bOnly, start, endInclusive + 1)]

\* The inner loop of diff: queued items inside the entry being visited.
RECURSIVE diffDrain(_, _, _, _)
diffDrain(st, eVersion, v, flag) ==
  IF Len(st.queue) > 0 /\ st.queue[1] >= eVersion
  THEN LET v2 == st.queue[1]
           flag2 == st.flags[v2]
           st1 == [st EXCEPT !.queue = Tail(st.queue),
                             !.numShared = IF flag2 = FlagShared THEN @ - 1 ELSE @]
       IN IF flag2 # flag
          THEN diffDrain(markRun(st1, v2 + 1, v, flag), eVersion, v2, FlagShared)
          ELSE diffDrain(st1, eVersion, v, flag)
  ELSE [st |-> st, v |-> v, flag |-> flag]

RECURSIVE diffLoop(_, _)
diffLoop(cg, st) ==
  IF st.err \/ ~(Len(st.queue) > st.numShared) THEN st
  ELSE LET v == st.queue[1]
           flag == st.flags[v]
           st1 == [st EXCEPT !.queue = Tail(st.queue),
                             !.numShared = IF flag = FlagShared THEN @ - 1 ELSE @]
       IN With(rawFindEntryContaining(cg, v), LAMBDA e :
          With(diffDrain(st1, e.version, v, flag), LAMBDA d :
          diffLoop(cg, diffEnqAll(markRun(d.st, e.version, d.v, d.flag),
                                  e.parents, d.flag))))

diff(cg, a, b) ==
  LET st0 == [queue |-> <<>>, flags |-> <<>>, numShared |-> 0,
              aOnly |-> <<>>, bOnly |-> <<>>, err |-> FALSE]
  IN With(diffLoop(cg, diffEnqAll(diffEnqAll(st0, a, FlagA), b, FlagB)), LAMBDA st :
       [aOnly |-> Reverse(st.aOnly), bOnly |-> Reverse(st.bOnly), err |-> st.err])

\* findConflicting's queue: time points {v: LVs highest first, flag}, kept as a
\* list with the greatest point (by the queue's comparator) at the head.
RECURSIVE cmpPointV(_, _, _)
cmpPointV(av, bv, i) ==
  IF i > Len(av) THEN (IF Len(av) < Len(bv) THEN -1 ELSE 0)
  ELSE IF Len(bv) < i THEN 1
  ELSE IF av[i] # bv[i] THEN av[i] - bv[i]
  ELSE cmpPointV(av, bv, i + 1)

cmpPoint(a, b) ==
  With(cmpPointV(a.v, b.v, 1), LAMBDA c : IF c # 0 THEN c ELSE a.flag - b.flag)

RECURSIVE enqPoint(_, _)
enqPoint(queue, x) ==
  IF Len(queue) = 0 THEN <<x>>
  ELSE IF cmpPoint(x, queue[1]) >= 0 THEN <<x>> \o queue
  ELSE <<queue[1]>> \o enqPoint(Tail(queue), x)

pointFromVersions(v, flag) == [v |-> Reverse(sortVersions(v)), flag |-> flag]

\* pointFromVersions keeping the array it is given in every point.
pointSharesArrayAlways(v) == TRUE

\* pointFromVersions puts the array it is given into the point when it has at
\* most one member, and a sorted copy (v.slice().sort) otherwise.
pointSharesArray(v) == Len(v) <= 1

\* An array that was passed to pointFromVersions, as findConflicting leaves
\* it: the only write to a point's array is the reverse() in place of the
\* array returned.
arrayAfterPoint(v) == IF pointSharesArray(v) THEN Reverse(v) ELSE v

\* dropDuplicates keeping the flag of the point dequeued first.
RECURSIVE dropDuplicatesKeepFlag(_, _, _)
dropDuplicatesKeepFlag(queue, v, flag) ==
  IF Len(queue) > 0 /\ queue[1].v = v
  THEN dropDuplicatesKeepFlag(Tail(queue), v, flag)
  ELSE [queue |-> queue, flag |-> flag]

\* Pops the points equal to v off the queue; the flag is Shared when one of
\* them carries another flag.
RECURSIVE dropDuplicates(_, _, _)
dropDuplicates(queue, v, flag) ==
  IF Len(queue) > 0 /\ queue[1].v = v
  THEN dropDuplicates(Tail(queue), v, IF queue[1].flag # flag THEN FlagShared ELSE flag)
  ELSE [queue |-> queue, flag |-> flag]

shatterNothing(queue, v, flag) == queue

\* A merge point is shattered: v[1], v[2], .. (all but the head) are queued
\* on their own.
RECURSIVE shatter(_, _, _)
shatter(queue, v, flag) ==
  IF Len(v) <= 1 THEN queue
  ELSE shatter(enqPoint(queue, [v |-> <<v[2]>>, flag |-> flag]),
               <<v[1]>> \o SubSeq(v, 3, Len(v)), flag)

\* Result: the common version returned and the (range, flag) calls of visit,
\* in call order.
RECURSIVE findConflictingLoop(_, _, _)
RECURSIVE consumeTxn(_, _, _, _, _, _)
consumeTxn(cg, queue, txn, end, flag, visits) ==
  IF Len(queue) = 0 THEN [common |-> <<end - 1>>, visits |-> visits]
  ELSE With(queue[1], LAMBDA peek :
    IF Len(peek.v) >= 1 /\ peek.v[1] >= txn.version
    THEN LET peekLast == peek.v[1]
             emit == peekLast + 1 < end
         IN consumeTxn(cg, shatter(Tail(queue), peek.v, peek.flag), txn,
                       IF emit THEN peekLast + 1 ELSE end,
                       IF peek.flag # flag THEN FlagShared ELSE flag,
                       IF emit
                       THEN Append(visits, [range |-> <<peekLast + 1, end>>, flag |-> flag])
                       ELSE visits)
    ELSE findConflictingLoop(cg,
           enqPoint(queue, pointFromVersions(txn.parents, flag)),
           Append(visits, [range |-> <<txn.version, end>>, flag |-> flag])))

findConflictingLoop(cg, queue, visits) ==
  With(queue[1].v, LAMBDA v :
    IF Len(v) = 0 THEN [common |-> <<>>, visits |-> visits]
    ELSE With(dropDuplicates(Tail(queue), v, queue[1].flag), LAMBDA d :
      IF Len(d.queue) = 0 THEN [common |-> Reverse(v), visits |-> visits]
      ELSE consumeTxn(cg, shatter(d.queue, v, d.flag), rawFindEntryContaining(cg, v[1]),
                      v[1] + 1, d.flag, visits)))

findConflicting(cg, a, b) ==
  findConflictingLoop(cg,
    enqPoint(enqPoint(<<>>, pointFromVersions(a, FlagA)), pointFromVersions(b, FlagB)),
    <<>>)

\* The graph as findConflicting(cg, a, b) leaves it. The arrays of cg that
\* reach pointFromVersions are the parents of each entry visited to its start
\* and, when the caller passes cg.heads as a or b, the heads.
afterFindConflicting(cg, a, b) ==
  With(findConflicting(cg, a, b).visits, LAMBDA visits :
    [heads |-> IF cg.heads = a \/ cg.heads = b THEN arrayAfterPoint(cg.heads) ELSE cg.heads,
     entries |-> [i \in 1..Len(cg.entries) |->
                    IF \E k \in 1..Len(visits) : visits[k].range[1] = cg.entries[i].version
                    THEN [cg.entries[i] EXCEPT !.parents = arrayAfterPoint(@)]
                    ELSE cg.entries[i]],
     agentToVersion |-> cg.agentToVersion])

\* compareVersions answering -1 whichever of the two descends from the other.
compareVersionsOneSign(cg, a, b) ==
  IF a > b
  THEN [ret |-> IF versionContainsLV(cg, <<a>>, b) THEN -1 ELSE 0, err |-> FALSE]
  ELSE IF a < b
  THEN [ret |-> IF versionContainsLV(cg, <<b>>, a) THEN -1 ELSE 0, err |-> FALSE]
  ELSE [ret |-> 0, err |-> TRUE]

\* err = TRUE where the code throws 'a and b are equal'.
compareVersions(cg, a, b) ==
  IF a > b
  THEN [ret |-> IF versionContainsLV(cg, <<a>>, b) THEN -1 ELSE 0, err |-> FALSE]
  ELSE IF a < b
  THEN [ret |-> IF versionContainsLV(cg, <<b>>, a) THEN 1 ELSE 0, err |-> FALSE]
  ELSE [ret |-> 0, err |-> TRUE]

\* ------------------------------------------------------------- causal-graph.ts (sync)
\* Agents in the order the summary's keys are visited.
AgentOrder == <<"a", "b">>

addRawVersion(cg, id, len, rawParents) ==
  add(cg, id[1], id[2], id[2] + len, rawToLVList(cg, rawParents))

\* addRawVersion without rawParents: the parents default to the heads.
addRawVersionAtHeads(cg, id, len) ==
  add(cg, id[1], id[2], id[2] + len, cg.heads)

tryRangeAppend(r1, r2) ==
  IF r1[2] = r2[1] THEN [ok |-> TRUE, item |-> <<r1[1], r2[2]>>]
  ELSE [ok |-> FALSE, item |-> r1]

RECURSIVE summarizeAgent(_, _)
summarizeAgent(av, versions) ==
  IF Len(av) = 0 THEN versions
  ELSE summarizeAgent(Tail(av), rlePush(versions, tryRangeAppend, <<av[1].seq, av[1].seqEnd>>))

\* summarizeVersion as a vector clock: one range from 0 to the agent's next seq.
summarizeVersionAsClock(cg) ==
  [k \in {a \in Agents : Len(cg.agentToVersion[a]) > 0} |->
     <<<<0, cg.agentToVersion[k][Len(cg.agentToVersion[k])].seqEnd>>>>]

\* A summary is a function from the agents that have a key to their ranges;
\* an agent without changes gets no key (av.length === 0: continue).
summarizeVersion(cg) ==
  [k \in {a \in Agents : Len(cg.agentToVersion[a]) > 0} |->
     summarizeAgent(cg.agentToVersion[k], <<>>)]

RECURSIVE eachVersionFrom(_, _, _, _)
eachVersionFrom(cg, idx, vStart, vEnd) ==
  IF idx < Len(cg.entries) /\ cg.entries[idx + 1].version < vEnd
  THEN <<[e |-> cg.entries[idx + 1],
          vs |-> max2(vStart, cg.entries[idx + 1].version),
          ve |-> min2(vEnd, cg.entries[idx + 1].vEnd)]>>
         \o eachVersionFrom(cg, idx + 1, vStart, vEnd)
  ELSE <<>>

\* The visits of eachVersionBetween, in order.
eachVersionBetween(cg, vStart, vEnd) ==
  eachVersionFrom(cg, rleFindIdxRaw(cg.entries, cgKeyStart, cgKeyEnd, vStart), vStart, vEnd)

\* intersectWithSummaryFull's inner loop without the visit of what is left
\* of the range after the last client entry.
RECURSIVE intersectRangeNoTail(_, _, _, _, _)
intersectRangeNoTail(agent, clientEntries, idx, startSeq, endSeq) ==
  IF idx < Len(clientEntries) /\ clientEntries[idx + 1].seq < endSeq
  THEN LET ce == clientEntries[idx + 1]
           gap == IF ce.seq > startSeq
                  THEN <<[agent |-> agent, startSeq |-> startSeq, endSeq |-> ce.seq,
                          version |-> -1]>>
                  ELSE <<>>
           start1 == IF ce.seq > startSeq THEN ce.seq ELSE startSeq
           localSeqEnd == min2(ce.seqEnd, endSeq)
       IN gap \o <<[agent |-> agent, startSeq |-> start1, endSeq |-> localSeqEnd,
                    version |-> ce.version + (start1 - ce.seq)]>>
              \o intersectRangeNoTail(agent, clientEntries, idx + 1, localSeqEnd, endSeq)
  ELSE <<>>

\* One [startSeq, endSeq) of the summary against the agent's client entries
\* from index idx on: the visits (version = -1: not known here).
RECURSIVE intersectRange(_, _, _, _, _)
intersectRange(agent, clientEntries, idx, startSeq, endSeq) ==
  IF idx < Len(clientEntries) /\ clientEntries[idx + 1].seq < endSeq
  THEN LET ce == clientEntries[idx + 1]
           gap == IF ce.seq > startSeq
                  THEN <<[agent |-> agent, startSeq |-> startSeq, endSeq |-> ce.seq,
                          version |-> -1]>>
                  ELSE <<>>
           start1 == IF ce.seq > startSeq THEN ce.seq ELSE startSeq
           localSeqEnd == min2(ce.seqEnd, endSeq)
       IN gap \o <<[agent |-> agent, startSeq |-> start1, endSeq |-> localSeqEnd,
                    version |-> ce.version + (start1 - ce.seq)]>>
              \o intersectRange(agent, clientEntries, idx + 1, localSeqEnd, endSeq)
  ELSE IF startSeq < endSeq
  THEN <<[agent |-> agent, startSeq |-> startSeq, endSeq |-> endSeq, version |-> -1]>>
  ELSE <<>>

RECURSIVE intersectAgent(_, _, _)
intersectAgent(cg, agent, ranges) ==
  IF Len(ranges) = 0 THEN <<>>
  ELSE LET clientEntries == cg.agentToVersion[agent]
       IN (IF Len(clientEntries) = 0
           THEN <<[agent |-> agent, startSeq |-> ranges[1][1], endSeq |-> ranges[1][2],
                   version |-> -1]>>
           ELSE With(rleFindIdxRaw(clientEntries, clientKeyStart, clientKeyEnd,
                                   ranges[1][1]),
                     LAMBDA found :
                  intersectRange(agent, clientEntries,
                                 IF found < 0 THEN -found - 1 ELSE found,
                                 ranges[1][1], ranges[1][2])))
          \o intersectAgent(cg, agent, Tail(ranges))

RECURSIVE intersectAgents(_, _, _)
intersectAgents(cg, summary, agents) ==
  IF Len(agents) = 0 THEN <<>>
  ELSE (IF agents[1] \in DOMAIN summary
        THEN intersectAgent(cg, agents[1], summary[agents[1]])
        ELSE <<>>)
         \o intersectAgents(cg, summary, Tail(agents))

\* The visits of intersectWithSummaryFull, in order.
intersectWithSummaryFull(cg, summary) == intersectAgents(cg, summary, AgentOrder)

\* intersectWithSummary's visitor collecting the end of each entry met, not
\* the end of the part of it that was asked for.
RECURSIVE intersectVersionsEntryEnd(_, _)
intersectVersionsEntryEnd(cg, visits) ==
  IF Len(visits) = 0 THEN <<>>
  ELSE LET x == visits[1]
       IN (IF x.version >= 0
           THEN With(eachVersionBetween(cg, x.version,
                                        x.version + (x.endSeq - x.startSeq)),
                     LAMBDA each : [i \in 1..Len(each) |-> each[i].e.vEnd - 1])
           ELSE <<>>)
          \o intersectVersionsEntryEnd(cg, Tail(visits))

RECURSIVE intersectVersions(_, _)
intersectVersions(cg, visits) ==
  IF Len(visits) = 0 THEN <<>>
  ELSE LET x == visits[1]
       IN (IF x.version >= 0
           THEN With(eachVersionBetween(cg, x.version,
                                        x.version + (x.endSeq - x.startSeq)),
                     LAMBDA each : [i \in 1..Len(each) |-> each[i].ve - 1])
           ELSE <<>>)
          \o intersectVersions(cg, Tail(visits))

\* intersectWithSummary taking everything it has for common.
intersectWithSummaryAllCommon(cg, summary) ==
  [common |-> cg.heads, remainder |-> None]

\* remainder: None (null) when no visit was of unknown seqs, else a summary
\* with a key for each agent that had such a visit, its ranges in visit order.
intersectWithSummary(cg, summary) ==
  With(intersectWithSummaryFull(cg, summary), LAMBDA visits :
  With(SelectSeq(visits, LAMBDA x : x.version < 0), LAMBDA unknown :
    [common |-> findDominators(cg, intersectVersions(cg, visits)),
     remainder |->
       IF Len(unknown) = 0 THEN None
       ELSE Some([k \in {unknown[i].agent : i \in 1..Len(unknown)} |->
               LET mine == SelectSeq(unknown, LAMBDA x : x.agent = k)
               IN [i \in 1..Len(mine) |-> <<mine[i].startSeq, mine[i].endSeq>>]])]))

\* ------------------------------------------------------------- serialization.ts
\* serialize storing each run's end where its length belongs.
serializeLenAsEnd(cg) ==
  [i \in 1..Len(cg.entries) |->
     [agent |-> cg.entries[i].agent, seq |-> cg.entries[i].seq,
      len |-> cg.entries[i].vEnd, parents |-> cg.entries[i].parents]]

serialize(cg) ==
  [i \in 1..Len(cg.entries) |->
     [agent |-> cg.entries[i].agent, seq |-> cg.entries[i].seq,
      len |-> cg.entries[i].vEnd - cg.entries[i].version,
      parents |-> cg.entries[i].parents]]

\* The loop of fromSerialized: entries are pushed as they come (no merge),
\* client entries go through rleInsert; err = TRUE when rleInsert throws.
RECURSIVE fromSerializedLoop(_, _, _)
fromSerializedLoop(data, v, result) ==
  IF Len(data) = 0 THEN [cg |-> result, err |-> FALSE]
  ELSE LET e == data[1]
           entries == Append(result.entries,
                        [agent |-> e.agent, seq |-> e.seq, version |-> v,
                         vEnd |-> v + e.len, parents |-> e.parents])
       IN With(rleInsert(result.agentToVersion[e.agent], clientKeyStart, clientKeyEnd,
                         tryAppendClientEntry,
                         [seq |-> e.seq, seqEnd |-> e.seq + e.len, version |-> v]),
               LAMBDA ins :
          IF ins.err THEN [cg |-> [result EXCEPT !.entries = entries], err |-> TRUE]
          ELSE fromSerializedLoop(Tail(data), v + e.len,
                 [entries |-> entries,
                  agentToVersion |-> [result.agentToVersion EXCEPT ![e.agent] = ins.list],
                  heads |-> advanceFrontier(result.heads, v + e.len - 1, e.parents)]))

fromSerialized(data) == fromSerializedLoop(data, 0, createCG)

\* serializeDiff's inner loop giving a piece cut out of a run the run's parents.
RECURSIVE serializeRangeRunParents(_, _, _)
serializeRangeRunParents(cg, start, end) ==
  IF start = end THEN <<>>
  ELSE With(findEntryContaining(cg, start), LAMBDA f :
       LET e == f.entry
           len == min2(end, e.vEnd) - start
       IN <<[agent |-> e.agent, seq |-> e.seq + f.offset, len |-> len,
             parents |-> lvToRawList(cg, e.parents)]>>
          \o serializeRangeRunParents(cg, start + len, end))

RECURSIVE serializeRange(_, _, _)
serializeRange(cg, start, end) ==
  IF start = end THEN <<>>
  ELSE With(findEntryContaining(cg, start), LAMBDA f :
       LET e == f.entry
           len == min2(end, e.vEnd) - start
       IN <<[agent |-> e.agent, seq |-> e.seq + f.offset, len |-> len,
             parents |-> IF f.offset = 0 THEN lvToRawList(cg, e.parents)
                         ELSE <<<<e.agent, e.seq + f.offset - 1>>>>]>>
          \o serializeRange(cg, start + len, end))

\* serializeDiff emitting the ranges last to first.
RECURSIVE serializeDiffNewestFirst(_, _)
serializeDiffNewestFirst(cg, ranges) ==
  IF Len(ranges) = 0 THEN <<>>
  ELSE serializeDiffNewestFirst(cg, Tail(ranges))
         \o serializeRange(cg, ranges[1][1], ranges[1][2])

RECURSIVE serializeDiff(_, _)
serializeDiff(cg, ranges) ==
  IF Len(ranges) = 0 THEN <<>>
  ELSE serializeRange(cg, ranges[1][1], ranges[1][2]) \o serializeDiff(cg, Tail(ranges))

serializeFromVersion(cg, v) == serializeDiff(cg, diff(cg, v, cg.heads).bOnly)

\* Result: the graph, the returned range, err = TRUE when a parent is unknown
\* (rawToLV throws; what was added before stays).
RECURSIVE mergePartialLoop(_, _)
mergePartialLoop(cg, data) ==
  IF Len(data) = 0 THEN [cg |-> cg, err |-> FALSE]
  ELSE LET d == data[1]
           knownParents == \A i \in 1..Len(d.parents) :
                              tryRawToLV(cg, d.parents[i][1], d.parents[i][2]) # None
       IN IF ~knownParents THEN [cg |-> cg, err |-> TRUE]
          ELSE With(addRawVersion(cg, <<d.agent, d.seq>>, d.len, d.parents), LAMBDA r :
                 IF r.err THEN [cg |-> r.cg, err |-> TRUE]
                 ELSE mergePartialLoop(r.cg, Tail(data)))

\* mergePartialVersions reading the start of the range after the loop.
mergePartialVersionsLateStart(cg, data) ==
  With(mergePartialLoop(cg, data), LAMBDA r :
    [cg |-> r.cg, range |-> <<nextLV(r.cg), nextLV(r.cg)>>, err |-> r.err])

mergePartialVersions(cg, data) ==
  With(mergePartialLoop(cg, data), LAMBDA r :
    [cg |-> r.cg, range |-> <<nextLV(cg), nextLV(r.cg)>>, err |-> r.err])

rangeCmps(ranges, needle) ==
  [i \in 1..Len(ranges) |->
     IF needle < ranges[i][1] THEN 1 ELSE IF needle >= ranges[i][2] THEN -1 ELSE 0]

RECURSIVE rangeStarts(_, _)
rangeStarts(ranges, outOffset) ==
  IF Len(ranges) = 0 THEN <<>>
  ELSE <<outOffset>> \o rangeStarts(Tail(ranges), outOffset + ranges[1][2] - ranges[1][1])

\* outParents3 encoding a parent inside the ranges by its position in its
\* own range.
RECURSIVE outParents3RangeRelative(_, _, _, _)
outParents3RangeRelative(cg, ranges, localParents, st) ==
  IF Len(localParents) = 0 THEN st
  ELSE LET p == localParents[1]
       IN With(bs(rangeCmps(ranges, p)), LAMBDA idx :
          outParents3RangeRelative(cg, ranges, Tail(localParents),
            IF idx >= 0
            THEN [st EXCEPT !.out = Append(@, p - ranges[idx + 1][1])]
            ELSE [out |-> Append(st.out, -(Len(st.extRef) + 1)),
                  extRef |-> Append(st.extRef, lvToRaw(cg, p))]))

\* The parents of one v3 entry: st.out the encoded parents so far, st.extRef
\* the table (a parent outside the ranges is pushed, and named -length).
RECURSIVE outParents3(_, _, _, _)
outParents3(cg, ranges, localParents, st) ==
  IF Len(localParents) = 0 THEN st
  ELSE LET p == localParents[1]
       IN With(bs(rangeCmps(ranges, p)), LAMBDA idx :
          outParents3(cg, ranges, Tail(localParents),
            IF idx >= 0
            THEN [st EXCEPT !.out = Append(@, rangeStarts(ranges, 0)[idx + 1]
                                                + p - ranges[idx + 1][1])]
            ELSE [out |-> Append(st.out, -(Len(st.extRef) + 1)),
                  extRef |-> Append(st.extRef, lvToRaw(cg, p))]))

RECURSIVE serializeRange3(_, _, _, _, _)
serializeRange3(cg, ranges, start, end, result) ==
  IF start = end THEN result
  ELSE With(findEntryContaining(cg, start), LAMBDA f :
       LET e == f.entry
           len == min2(end, e.vEnd) - start
           localParents == IF f.offset > 0 THEN <<e.version + f.offset - 1>> ELSE e.parents
       IN With(outParents3(cg, ranges, localParents,
                           [out |-> <<>>, extRef |-> result.extRef]),
               LAMBDA o :
          serializeRange3(cg, ranges, start + len, end,
            [extRef |-> o.extRef,
             entries |-> Append(result.entries,
                [agent |-> e.agent, seq |-> e.seq + f.offset, len |-> len,
                 parents |-> o.out])])))

RECURSIVE serializeRanges3(_, _, _, _)
serializeRanges3(cg, ranges, i, result) ==
  IF i > Len(ranges) THEN result
  ELSE serializeRanges3(cg, ranges, i + 1,
         serializeRange3(cg, ranges, ranges[i][1], ranges[i][2], result))

serializeDiff3(cg, ranges) ==
  serializeRanges3(cg, ranges, 1, [extRef |-> <<>>, entries |-> <<>>])

serializeFromVersion3(cg, v) == serializeDiff3(cg, diff(cg, v, cg.heads).bOnly)

\* diffOffsetToLV3: None where the code throws (parent not in the delta read
\* so far, extRef index out of range, or public version unknown to inCg).
diffOffsetToLV3(offset, data, entryOffsets, inCg) ==
  IF offset < 0
  THEN IF -offset - 1 < Len(data.extRef)
       THEN tryRawToLV(inCg, data.extRef[-offset][1], data.extRef[-offset][2])
       ELSE None
  ELSE With(bs([i \in 1..Len(entryOffsets) |->
                  IF offset < entryOffsets[i] THEN 1
                  ELSE IF offset >= entryOffsets[i] + data.entries[i].len THEN -1
                  ELSE 0]),
            LAMBDA idx :
          IF idx < 0 THEN None
          ELSE tryRawToLV(inCg, data.entries[idx + 1].agent,
                          data.entries[idx + 1].seq + offset - entryOffsets[idx + 1]))

\* The error diffOffsetToLV3 throws where it gives None: its name, its
\* message and the values written into the message.
diffOffsetToLV3Thrown(offset, data, entryOffsets, inCg) ==
  IF offset < 0
  THEN IF -offset - 1 < Len(data.extRef)
       THEN [name |-> "Error", message |-> "Unknown ID", args |-> data.extRef[-offset]]
       ELSE [name |-> "TypeError", message |-> "Cannot read properties of undefined", args |-> <<>>]
  ELSE With(bs([i \in 1..Len(entryOffsets) |->
                  IF offset < entryOffsets[i] THEN 1
                  ELSE IF offset >= entryOffsets[i] + data.entries[i].len THEN -1
                  ELSE 0]),
            LAMBDA idx :
          IF idx < 0
          THEN [name |-> "Error", message |-> "Could not find parent item", args |-> <<>>]
          ELSE [name |-> "Error", message |-> "Unknown ID",
                args |-> <<data.entries[idx + 1].agent,
                           data.entries[idx + 1].seq + offset - entryOffsets[idx + 1]>>])

\* Result: the graph, the entryOffsets returned, the entries yielded, err.
RECURSIVE mergePartialLoop3(_, _, _, _)
mergePartialLoop3(data, i, offset, st) ==
  IF i > Len(data.entries) THEN st
  ELSE LET d == data.entries[i]
       IN With([j \in 1..Len(d.parents) |->
                  diffOffsetToLV3(d.parents[j], data, st.entryOffsets, st.cg)],
               LAMBDA lvs :
          IF \E j \in 1..Len(lvs) : lvs[j] = None THEN [st EXCEPT !.err = TRUE]
          ELSE With(add(st.cg, d.agent, d.seq, d.seq + d.len,
                        [j \in 1..Len(lvs) |-> lvs[j][1]]),
                    LAMBDA r :
                 IF r.err THEN [st EXCEPT !.cg = r.cg, !.err = TRUE]
                 ELSE mergePartialLoop3(data, i + 1, offset + d.len,
                        [cg |-> r.cg,
                         entryOffsets |-> Append(st.entryOffsets, offset),
                         yielded |-> st.yielded \o r.ret,
                         err |-> FALSE])))

mergePartialVersions3(cg, data) ==
  mergePartialLoop3(data, 1, 0,
    [cg |-> cg, entryOffsets |-> <<>>, yielded |-> <<>>, err |-> FALSE])

\* The changes carried by the entries before entry i.
RECURSIVE offsetOf(_, _)
offsetOf(data, i) ==
  IF i <= 1 THEN 0 ELSE offsetOf(data, i - 1) + data.entries[i - 1].len

\* advanceVersionFromSerialized reading the first change of each entry.
RECURSIVE advanceVersionFromSerializedFirst(_, _, _)
advanceVersionFromSerializedFirst(cg, data, version) ==
  IF Len(data) = 0 THEN [version |-> version, err |-> FALSE]
  ELSE LET d == data[1]
       IN IF \/ \E i \in 1..Len(d.parents) :
                  tryRawToLV(cg, d.parents[i][1], d.parents[i][2]) = None
             \/ tryRawToLV(cg, d.agent, d.seq) = None
          THEN [version |-> version, err |-> TRUE]
          ELSE advanceVersionFromSerializedFirst(cg, Tail(data),
                 advanceFrontier(version, rawToLV(cg, d.agent, d.seq),
                                 rawToLVList(cg, d.parents)))

\* Result: the version returned; err = TRUE when rawToLV throws 'Unknown ID'
\* (a parent, or the last change of an entry, is not in cg).
RECURSIVE advanceVersionFromSerialized(_, _, _)
advanceVersionFromSerialized(cg, data, version) ==
  IF Len(data) = 0 THEN [version |-> version, err |-> FALSE]
  ELSE LET d == data[1]
       IN IF \/ \E i \in 1..Len(d.parents) :
                  tryRawToLV(cg, d.parents[i][1], d.parents[i][2]) = None
             \/ tryRawToLV(cg, d.agent, d.seq + d.len - 1) = None
          THEN [version |-> version, err |-> TRUE]
          ELSE advanceVersionFromSerialized(cg, Tail(data),
                 advanceFrontier(version, rawToLV(cg, d.agent, d.seq + d.len - 1),
                                 rawToLVList(cg, d.parents)))

\* The loop of advanceVersionFromSerialized3 from entry i on; entryOffsets
\* holds the offset of every entry of the delta.
RECURSIVE advanceVersionFrom3(_, _, _, _)
advanceVersionFrom3(cg, data, i, version) ==
  IF i > Len(data.entries) THEN [version |-> version, err |-> FALSE]
  ELSE LET d == data.entries[i]
           entryOffsets == [k \in 1..Len(data.entries) |-> offsetOf(data, k)]
       IN With([j \in 1..Len(d.parents) |-> diffOffsetToLV3(d.parents[j], data, entryOffsets, cg)],
               LAMBDA lvs :
          IF \/ \E j \in 1..Len(lvs) : lvs[j] = None
             \/ tryRawToLV(cg, d.agent, d.seq + d.len - 1) = None
          THEN [version |-> version, err |-> TRUE]
          ELSE advanceVersionFrom3(cg, data, i + 1,
                 advanceFrontier(version, rawToLV(cg, d.agent, d.seq + d.len - 1),
                                 [j \in 1..Len(lvs) |-> lvs[j][1]])))

advanceVersionFromSerialized3(cg, data, version) == advanceVersionFrom3(cg, data, 1, version)

\* mergeLocalCG(dest, src): what src has and dest's summary lacks, as a v3 delta.
mergeLocalRanges(dest, src) ==
  diff(src, intersectWithSummary(src, summarizeVersion(dest)).common, src.heads).bOnly

mergeLocalCG(dest, src) ==
  With(mergeLocalRanges(dest, src), LAMBDA ranges :
  With(mergePartialVersions3(dest, serializeDiff3(src, ranges)), LAMBDA m :
    [cg |-> m.cg, ranges |-> ranges, yielded |-> m.yielded, err |-> m.err]))

\* ------------------------------------------------------------- the harness
\* Parents a caller may pass: any set of at most two known LVs, ascending.
ParentChoices(cg) ==
  LET known == 0..(nextLV(cg) - 1)
  IN {<<>>} \cup {<<x>> : x \in known}
       \cup {<<pr[1], pr[2]>> : pr \in {q \in known \X known : q[1] < q[2]}}

\* Ranges a caller may serialize: one or two ascending ranges of known LVs.
RangeChoices(cg) ==
  LET cuts == 0..nextLV(cg)
      one == {r \in cuts \X cuts : r[1] < r[2]}
  IN {<<r>> : r \in one}
       \cup {<<pr[1], pr[2]>> : pr \in {q \in one \X one : q[1][2] <= q[2][1]}}

\* Seqs handed out so far over all agents.
Issued == nextSeq["a"] + nextSeq["b"]

\* The first seq from s on that cg does not know for the agent.
RECURSIVE firstUnknown(_, _, _)
firstUnknown(cg, agent, s) ==
  IF hasVersion(cg, agent, s) THEN firstUnknown(cg, agent, s + 1) ELSE s

\* lastOp: the call made last, for reading a state as "after this call".
\* ret: what add returned; spread: the span asked for started in a known
\* client entry that ends before the span does.
noOp(kind, peer) == [kind |-> kind, peer |-> peer, ret |-> "none", spread |-> FALSE]

addOp(kind, peer, ret, spread) ==
  [kind |-> kind, peer |-> peer, ret |-> IF ret = None THEN "null" ELSE "entry",
   spread |-> spread]

noRleOp == [kind |-> "none"]

\* No traversal is running.
travIdle == [kind |-> "idle", args |-> <<>>, queue |-> <<>>, st |-> <<>>,
             steps |-> 0, done |-> TRUE]

Init ==
  /\ docs = [p \in Peers |-> createCG]
  /\ nextSeq = [a \in Agents |-> 0]
  /\ lastOp = noOp("none", 0)
  /\ rleList = <<>>
  /\ rleOp = noRleOp
  /\ trav = travIdle

\* add(cg, agent, s, s + len, parents) of a span nobody has produced yet,
\* with any known parents.
AddNew(p, agent, len, gap, parents) ==
  LET s == nextSeq[agent] + gap
      r == add(docs[p], agent, s, s + len, parents)
  IN /\ UNCHANGED <<rleVars, trav>>
     /\ Issued + gap + len <= MaxSeq
     /\ docs' = [docs EXCEPT ![p] = r.cg]
     /\ nextSeq' = [nextSeq EXCEPT ![agent] = s + len]
     /\ lastOp' = addOp("add", p, r.ret, FALSE)

\* The harness's local append: addPubVersion(doc, agent, len), parents = heads.
AddAtHeads(p, agent, len) ==
  LET s == nextSeq[agent]
      r == addRawVersionAtHeads(docs[p], <<agent, s>>, len)
  IN /\ UNCHANGED <<rleVars, trav>>
     /\ Issued + len <= MaxSeq
     /\ docs' = [docs EXCEPT ![p] = r.cg]
     /\ nextSeq' = [nextSeq EXCEPT ![agent] = s + len]
     /\ lastOp' = addOp("addPub", p, r.ret, FALSE)

\* add of a span whose start is already known: all of it known, or a known
\* prefix followed by seqs nobody has produced yet.  The parents passed are
\* never used on this path (the trimming loop replaces them).
ReAdd(p, agent, seqStart, seqEnd) ==
  LET k == firstUnknown(docs[p], agent, seqStart)
      r == add(docs[p], agent, seqStart, seqEnd, <<>>)
  IN /\ UNCHANGED <<rleVars, trav>>
     /\ hasVersion(docs[p], agent, seqStart)
     /\ seqEnd <= k \/ k = nextSeq[agent]
     /\ Issued + max2(0, seqEnd - nextSeq[agent]) <= MaxSeq
     /\ docs' = [docs EXCEPT ![p] = r.cg]
     /\ nextSeq' = [nextSeq EXCEPT ![agent] = max2(@, seqEnd)]
     /\ lastOp' = addOp("reAdd", p, r.ret,
                         findClientEntryTrimmed(docs[p], agent, seqStart)[1].seqEnd < seqEnd)

\* mergePartialVersions(dest, serializeDiff(src, ranges)).
MergePartial(dest, src, ranges) ==
  LET r == mergePartialVersions(docs[dest], serializeDiff(docs[src], ranges))
  IN /\ UNCHANGED <<rleVars, trav>>
     /\ docs' = [docs EXCEPT ![dest] = r.cg]
     /\ UNCHANGED nextSeq
     /\ lastOp' = noOp("mergePartial", dest)

\* mergePartialVersions3(dest, serializeDiff3(src, ranges)).
MergePartial3(dest, src, ranges) ==
  LET r == mergePartialVersions3(docs[dest], serializeDiff3(docs[src], ranges))
  IN /\ UNCHANGED <<rleVars, trav>>
     /\ docs' = [docs EXCEPT ![dest] = r.cg]
     /\ UNCHANGED nextSeq
     /\ lastOp' = noOp("mergePartial3", dest)

MergeLocal(dest, src) ==
  LET r == mergeLocalCG(docs[dest], docs[src])
  IN /\ UNCHANGED <<rleVars, trav>>
     /\ docs' = [docs EXCEPT ![dest] = r.cg]
     /\ UNCHANGED nextSeq
     /\ lastOp' = noOp("mergeLocal", dest)

\* The harness's pair merge: mergeLocalCG(a, b), then mergeLocalCG(b, a).
mergeBoth(ds, a, b) ==
  With(mergeLocalCG(ds[a], ds[b]), LAMBDA r1 :
  With(mergeLocalCG(ds[b], r1.cg), LAMBDA r2 :
    [docs |-> [ds EXCEPT ![a] = r1.cg, ![b] = r2.cg], err |-> r1.err \/ r2.err]))

MergePair(a, b) ==
  LET r == mergeBoth(docs, a, b)
  IN /\ UNCHANGED <<rleVars, trav>>
     /\ docs' = r.docs
     /\ UNCHANGED nextSeq
     /\ lastOp' = noOp("mergePair", a)

Next ==
  \/ \E p \in Peers, agent \in Agents, len \in 1..MaxRunLen, gap \in HoleSizes :
       \E parents \in ParentChoices(docs[p]) : AddNew(p, agent, len, gap, parents)
  \/ \E p \in Peers, agent \in Agents, len \in 1..MaxRunLen : AddAtHeads(p, agent, len)
  \/ \E p \in Peers, agent \in Agents, seqStart \in 0..MaxSeq, seqEnd \in 1..MaxSeq :
       seqStart < seqEnd /\ ReAdd(p, agent, seqStart, seqEnd)
  \/ \E dest \in Peers, src \in Peers : dest # src /\
       \E ranges \in RangeChoices(docs[src]) : MergePartial(dest, src, ranges)
  \/ \E dest \in Peers, src \in Peers : dest # src /\
       \E ranges \in RangeChoices(docs[src]) : MergePartial3(dest, src, ranges)
  \/ \E dest \in Peers, src \in Peers : dest # src /\ MergeLocal(dest, src)
  \/ \E a \in Peers, b \in Peers : a # b /\ MergePair(a, b)

Spec == Init /\ [][Next]_vars

\* ------------------------------------------------- the adds, empty spans too
\* addPubVersion(doc, agent, 0): a span of no changes at the agent's next seq
\* (add with seqStart = seqEnd), parents = heads; while the graph holds no
\* empty entry.
AddEmpty(p, agent) ==
  LET s == nextSeq[agent]
      r == addRawVersionAtHeads(docs[p], <<agent, s>>, 0)
  IN /\ UNCHANGED <<rleVars, trav>>
     /\ \A i \in 1..Len(docs[p].entries) :
          docs[p].entries[i].vEnd > docs[p].entries[i].version
     /\ ~hasVersion(docs[p], agent, s)
     /\ docs' = [docs EXCEPT ![p] = r.cg]
     /\ UNCHANGED nextSeq
     /\ lastOp' = addOp("addEmpty", p, r.ret, FALSE)

NextAdds ==
  \/ \E p \in Peers, agent \in Agents, len \in 1..MaxRunLen : AddAtHeads(p, agent, len)
  \/ \E p \in Peers, agent \in Agents, seqStart \in 0..MaxSeq, seqEnd \in 1..MaxSeq :
       seqStart < seqEnd /\ ReAdd(p, agent, seqStart, seqEnd)
  \/ \E p \in Peers, agent \in Agents : AddEmpty(p, agent)

SpecEmptyAdd == Init /\ [][NextAdds]_vars

\* ------------------------------------------------- one graph, any shape
\* Changes stored in the one graph (peer 1) grown by NextGraph.
MaxLVs == 4

\* add(cg, agent, s, s + len, parents) at the agent's next seq with any known
\* parents: every parent relation over MaxLVs changes is built.
AddGraph(agent, len, parents) ==
  LET s == nextSeq[agent]
      r == add(docs[1], agent, s, s + len, parents)
  IN /\ UNCHANGED <<rleVars, trav>>
     /\ nextLV(docs[1]) + len <= MaxLVs
     /\ docs' = [docs EXCEPT ![1] = r.cg]
     /\ nextSeq' = [nextSeq EXCEPT ![agent] = s + len]
     /\ lastOp' = addOp("add", 1, r.ret, FALSE)

NextGraph ==
  \E agent \in Agents, len \in 1..MaxRunLen :
    \E parents \in ParentChoices(docs[1]) : AddGraph(agent, len, parents)

SpecGraph == Init /\ [][NextGraph]_vars

\* ------------------------------------------------- deltas with a bad parent
\* The delta with the parent at j of entry i replaced by `bad` (added, when j
\* is past the entry's parents).
corrupt(data, i, j, bad) ==
  LET ps == data.entries[i].parents
  IN [data EXCEPT !.entries[i].parents =
        IF j <= Len(ps) THEN [ps EXCEPT ![j] = bad] ELSE Append(ps, bad)]

\* The delta cut before entry i.
prefixOf(data, i) == [data EXCEPT !.entries = SubSeq(data.entries, 1, i - 1)]

\* A parent value that names nothing: the offset of entry i's own first change
\* (the first one not inside the preceding entries), or the reference just
\* past the end of extRef.
badParent(data, i, kind) ==
  IF kind = "offset" THEN offsetOf(data, i) ELSE -Len(data.extRef) - 1

\* The error thrown for entry i of the delta: that of its first parent that
\* diffOffsetToLV3 does not resolve, pre being the merge of the entries before.
thrownAt(data, i, pre) ==
  LET ps == data.entries[i].parents
      unresolved == {k \in 1..Len(ps) :
                       diffOffsetToLV3(ps[k], data, pre.entryOffsets, pre.cg) = None}
  IN IF unresolved = {} THEN [name |-> "none", message |-> "", args |-> <<>>]
     ELSE diffOffsetToLV3Thrown(ps[CHOOSE k \in unresolved : \A k2 \in unresolved : k <= k2],
                                data, pre.entryOffsets, pre.cg)

\* mergePartialVersions3(dest, delta) where the delta is serializeDiff3(src,
\* ranges) with one parent of entry i made bad (kind), and the entries up to
\* entry i of the delta as serialized merge without error.
mergeMalformed(dest, src, ranges, i, j, kind) ==
  With(serializeDiff3(src, ranges), LAMBDA good :
  With(corrupt(good, i, j, badParent(good, i, kind)), LAMBDA data :
  With(mergePartialVersions3(dest, prefixOf(data, i)), LAMBDA pre :
  With(mergePartialVersions3(dest, data), LAMBDA r :
    [enabled |-> /\ j <= Len(good.entries[i].parents) + 1
                 /\ ~mergePartialVersions3(dest, prefixOf(good, i + 1)).err,
     cg |-> r.cg,
     op |-> [kind |-> "mergeMalformed3", peer |-> 2, ret |-> "none", spread |-> FALSE,
             index |-> i - 1, bad |-> badParent(good, i, kind), err |-> r.err,
             expected |-> pre.cg, thrown |-> thrownAt(data, i, pre)]]))))

MergeMalformed3(ranges, i, j, kind) ==
  LET m == mergeMalformed(docs[2], docs[1], ranges, i, j, kind)
  IN /\ UNCHANGED <<rleVars, trav>>
     /\ m.enabled
     /\ docs' = [docs EXCEPT ![2] = m.cg]
     /\ UNCHANGED nextSeq
     /\ lastOp' = m.op

\* Changes in the graph whose deltas are sent.
MaxDeltaLVs == 3

\* Peer 1 grows by add; peer 2 is sent its deltas, each with a bad parent: it
\* keeps the entries before the bad one.
NextMalformed ==
  \/ \E agent \in Agents, len \in 1..MaxRunLen :
       \E parents \in ParentChoices(docs[1]) :
         nextLV(docs[1]) + len <= MaxDeltaLVs /\ AddGraph(agent, len, parents)
  \/ \E ranges \in RangeChoices(docs[1]) :
       \E i \in 1..Len(serializeDiff3(docs[1], ranges).entries), j \in 1..2 :
         \E kind \in {"offset", "extRef"} : MergeMalformed3(ranges, i, j, kind)

SpecMalformed == Init /\ [][NextMalformed]_vars

\* ------------------------------------------------- the run-length encoded list
\* Keys of the spans handed to the list lie in 0..MaxKey.
MaxKey == 5

SpanVals == {"a", "b"}

\* Simple keyed spans of 1..MaxRunLen keys.
Spans ==
  {sp \in [key : 0..(MaxKey - 1), length : 1..MaxRunLen, val : SpanVals] :
     sp.key + sp.length <= MaxKey}

\* Spans of each kind that can be split: two keys or more.
SplitChoices(kind) ==
  CASE kind = "cg" ->
         {[version |-> v, vEnd |-> v + n, agent |-> a, seq |-> s, parents |-> ps] :
            v \in 1..2, n \in 2..MaxRunLen, a \in Agents, s \in 0..1,
            ps \in {<<>>, <<0>>}}
    [] kind = "client" ->
         {[seq |-> s, seqEnd |-> s + n, version |-> v] :
            s \in 0..1, n \in 2..MaxRunLen, v \in 0..1}
    [] kind = "span" -> {sp \in Spans : sp.length >= 2}

\* itemLen with the methods of the span kind.
itemLen(kind, item) ==
  CASE kind = "cg" -> cgKeyEnd(item) - cgKeyStart(item)
    [] kind = "client" -> clientKeyEnd(item) - clientKeyStart(item)
    [] kind = "span" -> spanKeyEnd(item) - spanKeyStart(item)

\* One round of testRLEMethods' loop: both halves of the entry split at i,
\* and the left half with the right one appended.
testRLEMethods(kind, entry, i) ==
  LET start == CASE kind = "cg" -> cgTruncateKeepingLeft(entry, i)
                 [] kind = "client" -> clientTruncateKeepingLeft(entry, i)
                 [] kind = "span" -> spanTruncateKeepingLeft(entry, i)
      end == CASE kind = "cg" -> cgTruncateKeepingRight(entry, i).item
               [] kind = "client" -> clientTruncateKeepingRight(entry, i)
               [] kind = "span" -> spanTruncateKeepingRight(entry, i)
      app == CASE kind = "cg" -> tryAppendEntries(start, end)
               [] kind = "client" -> tryAppendClientEntry(start, end)
               [] kind = "span" -> spanTryAppend(start, end)
  IN [start |-> start, end |-> end, ok |-> app.ok, merged |-> app.item,
      err |-> kind = "cg" /\ cgTruncateKeepingRight(entry, i).err]

\* Sorted by key with pairwise disjoint, non-empty key ranges.
sortedDisjoint(l) ==
  /\ \A i \in 1..Len(l) : spanKeyStart(l[i]) < spanKeyEnd(l[i])
  /\ \A i \in 1..(Len(l) - 1) : spanKeyEnd(l[i]) <= spanKeyStart(l[i + 1])

\* rleInsert(list, simpleKeyedSpanMethods, newItem) into a sorted list.
RleInsert(newItem) ==
  LET r == spanInsert(rleList, newItem)
  IN /\ sortedDisjoint(rleList)
     /\ rleList' = r.list
     /\ rleOp' = [kind |-> "insert", item |-> newItem, before |-> rleList, err |-> r.err]
     /\ UNCHANGED <<docs, nextSeq, lastOp, trav>>

\* [...rleIterRange(list, simpleKeyedSpanMethods, startKey, endKey)].
RleIterRange(startKey, endKey) ==
  LET r == rleIterRange(rleList, startKey, endKey)
  IN /\ sortedDisjoint(rleList)
     /\ startKey <= endKey
     /\ rleList' = r.list
     /\ rleOp' = [kind |-> "iter", startKey |-> startKey, endKey |-> endKey,
                  before |-> rleList, yielded |-> r.yielded, err |-> r.err]
     /\ UNCHANGED <<docs, nextSeq, lastOp, trav>>

\* testRLEMethods(entry, m), the round of its loop at i; the entry is split
\* on its own, before any list is built.
TestRLEMethods(kind, entry, i) ==
  /\ Len(rleList) = 0
  /\ rleOp' = [kind |-> "split", span |-> kind, entry |-> entry, i |-> i,
               res |-> testRLEMethods(kind, entry, i)]
  /\ UNCHANGED <<docs, nextSeq, lastOp, rleList, trav>>

NextRle ==
  \/ \E newItem \in Spans : RleInsert(newItem)
  \/ \E startKey \in 0..MaxKey, endKey \in 0..MaxKey : RleIterRange(startKey, endKey)
  \/ \E kind \in {"cg", "client", "span"} : \E entry \in SplitChoices(kind) :
       \E i \in 1..(itemLen(kind, entry) - 1) : TestRLEMethods(kind, entry, i)

SpecRle == Init /\ [][NextRle]_vars

\* ------------------------------------------------------------- properties
LVs(cg) == 0..(nextLV(cg) - 1)

\* The (agent, seq) pairs a graph knows.
known(cg) == {id \in Agents \X (0..(MaxSeq + 1)) : hasVersion(cg, id[1], id[2])}

indexesAgree(cg) ==
  /\ \A i \in 1..Len(cg.entries) :
       LET e == cg.entries[i] IN
       \A off \in 0..(e.vEnd - e.version - 1) :
         /\ tryRawToLV(cg, e.agent, e.seq + off) = Some(e.version + off)
         /\ lvToRaw(cg, e.version + off) = <<e.agent, e.seq + off>>
  /\ \A v \in LVs(cg), w \in LVs(cg) : v # w => lvToRaw(cg, v) # lvToRaw(cg, w)
  /\ \A agent \in Agents :
       LET av == cg.agentToVersion[agent] IN
       /\ \A i \in 1..Len(av) :
            /\ av[i].seq < av[i].seqEnd
            /\ \A off \in 0..(av[i].seqEnd - av[i].seq - 1) :
                 lvToRaw(cg, av[i].version + off) = <<agent, av[i].seq + off>>
       /\ \A i \in 1..(Len(av) - 1) : av[i].seqEnd <= av[i + 1].seq

entriesTile(cg) ==
  /\ Len(cg.entries) > 0 => cg.entries[1].version = 0
  /\ \A i \in 2..Len(cg.entries) : cg.entries[i].version = cg.entries[i - 1].vEnd
  /\ \A i \in 1..Len(cg.entries) : cg.entries[i].vEnd > cg.entries[i].version
  /\ nextLV(cg) = Cardinality(known(cg))

\* v has no child: no stored change names it as a parent.
childless(cg, v) ==
  \A w \in LVs(cg) : ~includes(lvToRawWithParents(cg, w).parents, v)

headsAreDominators(cg) ==
  /\ \A i \in 1..(Len(cg.heads) - 1) : cg.heads[i] < cg.heads[i + 1]
  /\ {cg.heads[i] : i \in 1..Len(cg.heads)} = {v \in LVs(cg) : childless(cg, v)}
  /\ cg.heads = findDominators(cg, [i \in 1..nextLV(cg) |-> i - 1])

parentsBelow(cg) ==
  \A i \in 1..Len(cg.entries) :
    \A j \in 1..Len(cg.entries[i].parents) :
      /\ cg.entries[i].parents[j] >= 0
      /\ cg.entries[i].parents[j] < cg.entries[i].version

\* The two tryAppend rules, restated.
cgRunContinues(a, b) ==
  /\ b.version = a.vEnd
  /\ a.agent = b.agent
  /\ a.seq + (a.vEnd - a.version) = b.seq
  /\ b.parents = <<a.vEnd - 1>>

clientRunContinues(a, b) ==
  /\ b.seq = a.seqEnd
  /\ b.version = a.version + (a.seqEnd - a.seq)

maximallyMerged(cg) ==
  /\ \A i \in 1..(Len(cg.entries) - 1) : ~cgRunContinues(cg.entries[i], cg.entries[i + 1])
  /\ \A agent \in Agents :
       \A i \in 1..(Len(cg.agentToVersion[agent]) - 1) :
         ~clientRunContinues(cg.agentToVersion[agent][i], cg.agentToVersion[agent][i + 1])

\* C1: after any sequence of add / addPub / mergePartial calls the two
\* indexes agree: every change of every CG entry maps to its LV through the
\* client index and back, no (agent, seq) has two LVs, and each agent's client
\* entries are non-empty, ordered by seq and do not overlap.
C1_IndexesAgree == \A p \in Peers : indexesAgree(docs[p])

\* A merge has left an agent's seqs in an order other than their LV order.
C1_Witness ==
  /\ lastOp.kind \in {"mergePartial", "mergePartial3"}
  /\ \E agent \in Agents :
       LET av == docs[lastOp.peer].agentToVersion[agent] IN
       \E i \in 1..(Len(av) - 1) : av[i].version > av[i + 1].version

\* C2: after any sequence of add / addPub / mergePartial calls the entries
\* tile [0, nextLV): the first starts at 0, each starts where the one before
\* ends, every entry has vEnd > version (add with seqStart = seqEnd included),
\* and nextLV is the number of known (agent, seq) changes.
C2_EntriesTile == \A p \in Peers : entriesTile(docs[p])

\* C3: after any sequence of add / addPub / mergePartial calls, heads is
\* strictly ascending, is the set of stored LVs that no stored change
\* descends from, and equals findDominators(cg, [0 .. nextLV)), whatever
\* parents the adds were given.
C3_HeadsAreDominators == \A p \in Peers : headsAreDominators(docs[p])

\* add was given two parents one of which is an ancestor of the other.
C3_Witness ==
  /\ lastOp.kind = "add"
  /\ LET es == docs[lastOp.peer].entries IN
     /\ Len(es) >= 2
     /\ Len(es[Len(es)].parents) = 2
     /\ versionContainsLV(docs[lastOp.peer], <<es[Len(es)].parents[2]>>,
                          es[Len(es)].parents[1])

\* C4: after any sequence of add / addPub / mergePartial calls every parent
\* LV stored in a CG entry is >= 0 and < that entry's version.
C4_ParentsBelow == \A p \in Peers : parentsBelow(docs[p])

\* A prefix-trimmed add has stored an entry whose parent is the LV just
\* below an older entry's end, not the entry before it.
C4_Witness ==
  /\ lastOp.kind = "reAdd" /\ lastOp.ret = "entry"
  /\ LET es == docs[lastOp.peer].entries IN
     /\ Len(es) >= 2
     /\ Len(es[Len(es)].parents) = 1
     /\ es[Len(es)].parents[1] < es[Len(es)].version - 1

\* C5: after any sequence of add / addPub / mergePartial calls no two
\* adjacent CG entries and no two adjacent client entries of an agent satisfy
\* their tryAppend rule.
C5_MaximallyMerged == \A p \in Peers : maximallyMerged(docs[p])

\* An add whose prefix was known has inserted changes, and the graph still
\* holds a single CG entry and a single client entry: the run was extended.
C5_Witness ==
  /\ lastOp.kind = "reAdd" /\ lastOp.ret = "entry"
  /\ LET cg == docs[lastOp.peer] IN
     /\ Len(cg.entries) = 1
     /\ \A agent \in Agents : Len(cg.agentToVersion[agent]) <= 1

\* Parents a caller may pass to add, valid or not: the known ones, an LV not
\* stored yet, a repeated LV.
AnyParents(cg) == ParentChoices(cg) \cup {<<nextLV(cg)>>, <<0, 0>>}

\* C6: add is idempotent: when every seq of [seqStart, seqEnd) is known for
\* the agent, in one client entry or over several, add returns null, raises
\* nothing and leaves the graph as it was, whatever parents are passed.
C6_AddIdempotent ==
  \A p \in Peers, agent \in Agents, s \in 0..MaxSeq, e \in 1..(MaxSeq + 1) :
    (s < e /\ \A q \in s..(e - 1) : hasVersion(docs[p], agent, q)) =>
      \A parents \in AnyParents(docs[p]) :
        add(docs[p], agent, s, e, parents) = [cg |-> docs[p], ret |-> None, err |-> FALSE]

\* add has returned null for a span that starts in one client entry and ends
\* in a later one.
C6_Witness == lastOp.kind = "reAdd" /\ lastOp.ret = "null" /\ lastOp.spread

\* C7: when [seqStart, k) is known and [k, seqEnd) is not, add inserts the
\* remainder only: nextLV grows by seqEnd - k, the new LVs are the seqs
\* k..seqEnd-1 in order, the old LVs keep their changes, and the first new
\* change has the single parent LV(agent, k - 1), whatever parents were passed.
C7_PrefixTrimmed ==
  \A p \in Peers, agent \in Agents, s \in 0..MaxSeq, e \in 1..(MaxSeq + 1) :
    LET cg == docs[p]
        k == firstUnknown(cg, agent, s)
        n == nextLV(cg)
    IN (s < k /\ k < e /\ \A q \in k..(e - 1) : ~hasVersion(cg, agent, q)) =>
         \A parents \in AnyParents(cg) :
           LET r == add(cg, agent, s, e, parents)
               last == <<rawToLV(cg, agent, k - 1)>>
           IN /\ ~r.err
              /\ nextLV(r.cg) = n + (e - k)
              /\ \A j \in 0..(e - k - 1) : lvToRaw(r.cg, n + j) = <<agent, k + j>>
              /\ \A v \in LVs(cg) : lvToRaw(r.cg, v) = lvToRaw(cg, v)
              /\ lvToRawWithParents(r.cg, n).parents = last
              /\ r.ret = Some([version |-> n, vEnd |-> n + (e - k), agent |-> agent,
                               seq |-> k, parents |-> last])

\* add was passed no parents and a span with a known prefix, and has inserted
\* the remainder in a graph with other changes.
C7_Witness ==
  /\ lastOp.kind = "reAdd" /\ lastOp.ret = "entry" /\ lastOp.spread
  /\ Len(docs[lastOp.peer].entries) >= 2

appendOnly(old, new) ==
  /\ nextLV(new) >= nextLV(old)
  /\ \A v \in LVs(old) :
       /\ lvToRaw(new, v) = lvToRaw(old, v)
       /\ lvToRawWithParents(new, v) = lvToRawWithParents(old, v)
       /\ versionContainsLV(old, old.heads, v) => versionContainsLV(new, new.heads, v)
  /\ known(old) \subseteq known(new)

\* C8: the store is append-only: across every step, each LV below the old
\* nextLV keeps its (agent, seq) and its parents, nextLV does not decrease, no
\* known (agent, seq) becomes unknown, and what the old heads contained the
\* new heads contain.
C8_AppendOnly == [][\A p \in Peers : appendOnly(docs[p], docs'[p])]_vars

\* A merge has added changes on a second branch of a graph that had some.
C8_Witness ==
  /\ lastOp.kind \in {"mergePartial3", "mergeLocal"}
  /\ Len(docs[lastOp.peer].heads) >= 2
  /\ Len(docs[lastOp.peer].entries) >= 2

publicHeads(cg) == {lvToRaw(cg, cg.heads[i]) : i \in 1..Len(cg.heads)}

\* What the harness's checkCG asserts of one graph.
checkCG(cg) ==
  /\ indexesAgree(cg)
  /\ entriesTile(cg)
  /\ headsAreDominators(cg)
  /\ parentsBelow(cg)
  /\ maximallyMerged(cg)

\* C9: for the graphs A, B of any two peers, mergeLocalCG(A, B) followed by
\* mergeLocalCG(B, A) raises nothing and leaves both with the same public
\* heads and the same known (agent, seq) pairs, and both pass checkCG.
C9_MergeBothConverges ==
  \A a \in Peers, b \in Peers :
    a # b =>
      LET r == mergeBoth(docs, a, b)
      IN /\ ~r.err
         /\ publicHeads(r.docs[a]) = publicHeads(r.docs[b])
         /\ known(r.docs[a]) = known(r.docs[b])
         /\ checkCG(r.docs[a])
         /\ checkCG(r.docs[b])

\* The pair merge has run on two peers that number the same changes
\* differently and hold concurrent heads.
C9_Witness ==
  /\ lastOp.kind = "mergePair"
  /\ docs[1].entries # docs[2].entries
  /\ nextLV(docs[1]) = MaxSeq
  /\ Len(docs[1].heads) >= 2

\* C10: mergePartial is idempotent: when a delta d (v2 or v3, of any ranges
\* of any peer) has applied to cg without error, applying d again raises
\* nothing, inserts nothing (empty range, nothing yielded) and leaves the
\* graph exactly as the first application left it.
C10_MergePartialIdempotent ==
  \A dest \in Peers, src \in Peers :
    \A ranges \in RangeChoices(docs[src]) :
      /\ LET d == serializeDiff(docs[src], ranges)
             r1 == mergePartialVersions(docs[dest], d)
             r2 == mergePartialVersions(r1.cg, d)
         IN ~r1.err => (~r2.err /\ r2.range[1] = r2.range[2] /\ r2.cg = r1.cg)
      /\ LET d == serializeDiff3(docs[src], ranges)
             r1 == mergePartialVersions3(docs[dest], d)
             r2 == mergePartialVersions3(r1.cg, d)
         IN ~r1.err => (~r2.err /\ r2.yielded = <<>> /\ r2.cg = r1.cg)

\* A two-range delta of another peer has just been merged: its last change
\* is the newest change of the graph, and the delta applies again.
C10_Witness ==
  /\ lastOp.kind = "mergePartial"
  /\ \E src \in Peers \ {lastOp.peer} :
       \E ranges \in RangeChoices(docs[src]) :
         LET d == serializeDiff(docs[src], ranges)
             cg == docs[lastOp.peer]
         IN /\ Len(ranges) = 2
            /\ nextLV(cg) >= 2
            /\ lvToRaw(cg, nextLV(cg) - 1)
                 = <<d[Len(d)].agent, d[Len(d)].seq + d[Len(d)].len - 1>>
            /\ ~mergePartialVersions(cg, d).err

\* C11: snapshot round trip: for every graph built by add / addPub /
\* mergePartial, fromSerialized(serialize(cg)) raises nothing and equals cg:
\* same entries, same agentToVersion lists, same heads.
C11_SnapshotRoundTrip ==
  \A p \in Peers :
    fromSerialized(serialize(docs[p])) = [cg |-> docs[p], err |-> FALSE]

\* A graph with several entries and concurrent heads, where an agent's
\* client entries are not in LV order, has been rebuilt from its snapshot.
C11_Witness ==
  \E p \in Peers :
    LET back == fromSerialized(serialize(docs[p])).cg IN
    /\ Len(serialize(docs[p])) >= 2
    /\ Len(back.heads) >= 2
    /\ \E agent \in Agents :
         LET av == back.agentToVersion[agent] IN
         \E i \in 1..(Len(av) - 1) : av[i].version > av[i + 1].version

\* The partition of [start, n) cut at the members of cuts.
RECURSIVE PartitionOf(_, _, _)
PartitionOf(cuts, start, n) ==
  IF start >= n THEN <<>>
  ELSE LET later == {c \in cuts : c > start}
           next == IF later = {} THEN n ELSE CHOOSE c \in later : \A d \in later : c <= d
       IN <<<<start, next>>>> \o PartitionOf(cuts, next, n)

\* Every partition of [0, n) into contiguous ascending ranges.
Partitions(n) == {PartitionOf(S, 0, n) : S \in SUBSET (1..(n - 1))}

\* C12: delta round trip: for every partition of [0, nextLV) into contiguous
\* ascending ranges (one range, or cuts inside runs), merging
\* serializeDiff(cg, ranges) into an empty graph raises nothing, inserts
\* [0, nextLV) and gives a graph equal to cg.
C12_DeltaRoundTrip ==
  \A p \in Peers :
    \A ranges \in Partitions(nextLV(docs[p])) :
      mergePartialVersions(createCG, serializeDiff(docs[p], ranges))
        = [cg |-> docs[p], range |-> <<0, nextLV(docs[p])>>, err |-> FALSE]

\* A graph of several entries has been rebuilt from a delta whose ranges cut
\* a run in the middle.
C12_Witness ==
  \E p \in Peers :
    /\ Len(docs[p].entries) >= 2
    /\ \E ranges \in Partitions(nextLV(docs[p])) :
         /\ \E i \in 1..Len(ranges), j \in 1..Len(docs[p].entries) :
              /\ docs[p].entries[j].version < ranges[i][1]
              /\ ranges[i][1] < docs[p].entries[j].vEnd
         /\ Len(serializeDiff(docs[p], ranges)) > Len(docs[p].entries)
         /\ mergePartialVersions(createCG, serializeDiff(docs[p], ranges)).cg = docs[p]

\* The LVs a list of [start, end) ranges covers.
covered(ranges) ==
  UNION {ranges[i][1]..(ranges[i][2] - 1) : i \in 1..Len(ranges)}

\* The LVs of src whose (agent, seq) dest does not know.
missingIn(dest, src) ==
  {v \in LVs(src) : ~hasVersion(dest, lvToRaw(src, v)[1], lvToRaw(src, v)[2])}

\* C13: in mergeLocalCG(dest, src) the ranges diff(src, common, src.heads).bOnly,
\* with common from intersectWithSummary(src, summarize(dest)), cover exactly
\* the LVs of src whose (agent, seq) dest does not know; when dest knows all
\* that src knows, mergeLocalCG raises nothing, inserts nothing and leaves
\* dest as it was.
C13_MergeLocalSendsMissing ==
  \A dest \in Peers, src \in Peers :
    dest # src =>
      /\ covered(mergeLocalRanges(docs[dest], docs[src])) = missingIn(docs[dest], docs[src])
      /\ missingIn(docs[dest], docs[src]) = {} =>
           LET m == mergeLocalCG(docs[dest], docs[src])
           IN ~m.err /\ m.yielded = <<>> /\ m.cg = docs[dest]

\* src holds changes dest lacks on both sides of a change dest has: the
\* ranges sent are two, and they are not all of src.
C13_Witness ==
  \E dest \in Peers, src \in Peers :
    /\ dest # src
    /\ Len(mergeLocalRanges(docs[dest], docs[src])) = 2
    /\ covered(mergeLocalRanges(docs[dest], docs[src])) # LVs(docs[src])
    /\ nextLV(docs[dest]) > 0

\* v and its ancestors through the parent relation (in-run parents included).
RECURSIVE ancestors(_, _)
ancestors(cg, v) ==
  LET ps == lvToRawWithParents(cg, v).parents
  IN {v} \cup UNION {ancestors(cg, ps[i]) : i \in 1..Len(ps)}

\* The LVs reachable from a frontier: its members and their ancestors.
reachable(cg, F) == UNION {ancestors(cg, F[i]) : i \in 1..Len(F)}

\* The members of a set of LVs in ascending order.
RECURSIVE ascending(_)
ascending(S) ==
  IF S = {} THEN <<>>
  ELSE LET m == CHOOSE x \in S : \A y \in S : x <= y
       IN <<m>> \o ascending(S \ {m})

\* Every ascending list of distinct stored LVs.
Frontiers(cg) == {ascending(S) : S \in SUBSET LVs(cg)}

\* ------------------------------------------- the traversals, step by step
\* One traversal of tools.ts at a time runs on the graph of peer 1, one
\* iteration of its outer loop per step: trav.queue is its priority queue of
\* numbers (findConflicting's queue of time points is trav.st.points),
\* trav.st the rest of its state, trav.done says that the call has returned.
MaxTravLVs == 3

\* One iteration of diff's loop.
diffStep(cg, st) ==
  LET v == st.queue[1]
      flag == st.flags[v]
      st1 == [st EXCEPT !.queue = Tail(st.queue),
                        !.numShared = IF flag = FlagShared THEN @ - 1 ELSE @]
  IN With(rawFindEntryContaining(cg, v), LAMBDA e :
     With(diffDrain(st1, e.version, v, flag), LAMBDA d :
       diffEnqAll(markRun(d.st, e.version, d.v, d.flag), e.parents, d.flag)))

diffRunning(st) == ~st.err /\ Len(st.queue) > st.numShared

\* One iteration of versionContainsLV's loop: ret is None while it runs.
containsStepRequeue(cg, queue, target) ==
  With(rawFindEntryContaining(cg, queue[1]), LAMBDA e :
    IF queue[1] = target \/ e.version <= target \/ includes(e.parents, target)
    THEN [queue |-> Tail(queue), ret |-> Some(TRUE)]
    ELSE With(enqAll(enq(dropWhileGE(Tail(queue), e.version), queue[1]),
                     SelectSeq(e.parents, LAMBDA p : p > target)),
              LAMBDA q : [queue |-> q, ret |-> IF Len(q) = 0 THEN Some(FALSE) ELSE None]))

containsStep(cg, queue, target) ==
  With(rawFindEntryContaining(cg, queue[1]), LAMBDA e :
    IF queue[1] = target \/ e.version <= target \/ includes(e.parents, target)
    THEN [queue |-> Tail(queue), ret |-> Some(TRUE)]
    ELSE With(enqAll(dropWhileGE(Tail(queue), e.version),
                     SelectSeq(e.parents, LAMBDA p : p > target)),
              LAMBDA q : [queue |-> q, ret |-> IF Len(q) = 0 THEN Some(FALSE) ELSE None]))

\* One iteration of findDominators2's loop.
domStep(cg, queue, out, inputsRemaining) ==
  LET vEnc == queue[1]
      isInput == (vEnc % 2) = 0
      v == shr1(vEnc)
      out1 == IF isInput THEN Append(out, [v |-> v, isDominator |-> TRUE]) ELSE out
      rem1 == IF isInput THEN inputsRemaining - 1 ELSE inputsRemaining
  IN With(rawFindEntryContaining(cg, v), LAMBDA e :
     With(domDrain(Tail(queue), e.version * 2, out1, rem1), LAMBDA d :
       [queue |-> enqAll(d.queue, [i \in 1..Len(e.parents) |-> e.parents[i] * 2 + 1]),
        out |-> d.out, remaining |-> d.remaining]))

\* The inner loop of findConflicting, to its return or its break.
RECURSIVE conflictConsume(_, _, _, _, _, _)
conflictConsume(cg, queue, txn, end, flag, visits) ==
  IF Len(queue) = 0 THEN [queue |-> queue, visits |-> visits, common |-> Some(<<end - 1>>)]
  ELSE With(queue[1], LAMBDA peek :
    IF Len(peek.v) >= 1 /\ peek.v[1] >= txn.version
    THEN LET peekLast == peek.v[1]
             emit == peekLast + 1 < end
         IN conflictConsume(cg, shatter(Tail(queue), peek.v, peek.flag), txn,
                            IF emit THEN peekLast + 1 ELSE end,
                            IF peek.flag # flag THEN FlagShared ELSE flag,
                            IF emit
                            THEN Append(visits, [range |-> <<peekLast + 1, end>>, flag |-> flag])
                            ELSE visits)
    ELSE [queue |-> enqPoint(queue, pointFromVersions(txn.parents, flag)),
          visits |-> Append(visits, [range |-> <<txn.version, end>>, flag |-> flag]),
          common |-> None])

\* One iteration of findConflicting's outer loop: common is None while it runs.
conflictStep(cg, queue, visits) ==
  With(queue[1].v, LAMBDA v :
    IF Len(v) = 0 THEN [queue |-> Tail(queue), visits |-> visits, common |-> Some(<<>>)]
    ELSE With(dropDuplicates(Tail(queue), v, queue[1].flag), LAMBDA d :
      IF Len(d.queue) = 0
      THEN [queue |-> d.queue, visits |-> visits, common |-> Some(Reverse(v))]
      ELSE conflictConsume(cg, shatter(d.queue, v, d.flag),
                           rawFindEntryContaining(cg, v[1]), v[1] + 1, d.flag, visits)))

\* The call is made: the state in which its loop is entered.
travStart(cg, kind, a, b) ==
  IF kind = "diff"
  THEN With(diffEnqAll(diffEnqAll([queue |-> <<>>, flags |-> <<>>, numShared |-> 0,
                                   aOnly |-> <<>>, bOnly |-> <<>>, err |-> FALSE],
                                  a, FlagA), b, FlagB),
            LAMBDA st : [kind |-> kind, args |-> <<a, b>>, queue |-> st.queue, st |-> st,
                         steps |-> 0, done |-> ~diffRunning(st)])
  ELSE IF kind = "contains"
  THEN With(IF includes(a, b[1]) THEN <<>>
            ELSE enqAll(<<>>, SelectSeq(a, LAMBDA v : v > b[1])),
            LAMBDA q : [kind |-> kind, args |-> <<a, b>>, queue |-> q,
                        st |-> [ret |-> IF includes(a, b[1]) THEN Some(TRUE)
                                        ELSE IF Len(q) = 0 THEN Some(FALSE) ELSE None],
                        steps |-> 0, done |-> Len(q) = 0])
  ELSE IF kind = "dominators"
  THEN [kind |-> kind, args |-> <<a, b>>,
        queue |-> enqAll(<<>>, [i \in 1..Len(a) |-> a[i] * 2]),
        st |-> [out |-> <<>>, remaining |-> Len(a)], steps |-> 0, done |-> FALSE]
  ELSE [kind |-> kind, args |-> <<a, b>>, queue |-> <<>>,
        st |-> [points |-> enqPoint(enqPoint(<<>>, pointFromVersions(a, FlagA)),
                                    pointFromVersions(b, FlagB)),
                visits |-> <<>>, common |-> None],
        steps |-> 0, done |-> FALSE]

\* One iteration of the loop of the running traversal.
travStep(cg, t) ==
  IF t.kind = "diff"
  THEN With(diffStep(cg, t.st), LAMBDA st :
         [t EXCEPT !.queue = st.queue, !.st = st, !.steps = @ + 1,
                   !.done = ~diffRunning(st)])
  ELSE IF t.kind = "contains"
  THEN With(containsStep(cg, t.queue, t.args[2][1]), LAMBDA s :
         [t EXCEPT !.queue = s.queue, !.st = [ret |-> s.ret], !.steps = @ + 1,
                   !.done = s.ret # None])
  ELSE IF t.kind = "dominators"
  THEN With(domStep(cg, t.queue, t.st.out, t.st.remaining), LAMBDA s :
         [t EXCEPT !.queue = s.queue, !.st = [out |-> s.out, remaining |-> s.remaining],
                   !.steps = @ + 1,
                   !.done = ~(Len(s.queue) > 0 /\ s.remaining > 0)])
  ELSE With(conflictStep(cg, t.st.points, t.st.visits), LAMBDA s :
         [t EXCEPT !.st = [points |-> s.queue, visits |-> s.visits, common |-> s.common],
                   !.steps = @ + 1, !.done = s.common # None])

\* A caller starts diff or findConflicting on two frontiers.
TravStartPair(kind, a, b) ==
  /\ trav.kind = "idle"
  /\ trav' = travStart(docs[1], kind, a, b)
  /\ UNCHANGED <<docs, nextSeq, lastOp, rleVars>>

\* A caller starts versionContainsLV on a frontier and a target.
TravStartContains(frontier, target) ==
  /\ trav.kind = "idle"
  /\ trav' = travStart(docs[1], "contains", frontier, <<target>>)
  /\ UNCHANGED <<docs, nextSeq, lastOp, rleVars>>

\* A caller starts findDominators2 on a list of three versions (shorter lists
\* do not reach its loop).
TravStartDominators(versions) ==
  /\ trav.kind = "idle"
  /\ trav' = travStart(docs[1], "dominators", versions, <<>>)
  /\ UNCHANGED <<docs, nextSeq, lastOp, rleVars>>

TravStep ==
  /\ trav.kind # "idle"
  /\ ~trav.done
  /\ trav' = travStep(docs[1], trav)
  /\ UNCHANGED <<docs, nextSeq, lastOp, rleVars>>

\* The call has returned.
TravReturn ==
  /\ trav.kind # "idle"
  /\ trav.done
  /\ trav' = travIdle
  /\ UNCHANGED <<docs, nextSeq, lastOp, rleVars>>

\* The graph grows by add while no traversal runs (the code is single
\* threaded); a loop that has been entered takes its next iteration.
NextTraverse ==
  \/ \E agent \in Agents, len \in 1..MaxRunLen :
       \E parents \in ParentChoices(docs[1]) :
         /\ trav.kind = "idle"
         /\ nextLV(docs[1]) + len <= MaxTravLVs
         /\ AddGraph(agent, len, parents)
  \/ \E kind \in {"diff", "conflicting"} :
       \E a \in Frontiers(docs[1]), b \in Frontiers(docs[1]) : TravStartPair(kind, a, b)
  \/ \E frontier \in Frontiers(docs[1]), target \in LVs(docs[1]) :
       TravStartContains(frontier, target)
  \/ \E versions \in [1..3 -> LVs(docs[1])] : TravStartDominators(versions)
  \/ TravStep
  \/ TravReturn

\* A loop is entered and has not ended: TravStep is enabled (it always adds
\* one to trav.steps, so it changes vars).
travRunning == trav.kind # "idle" /\ ~trav.done

\* The call runs to completion once made: weak fairness of TravStep, with
\* ENABLED <<TravStep>>_vars written as travRunning.
SpecTraverse ==
  Init /\ [][NextTraverse]_vars /\ ([]<>(~travRunning) \/ []<><<TravStep>>_vars)

\* ------------------------------------------- graphs with large LVs
\* One graph grows by single changes up to MaxSmallLVs changes, by one run of
\* 2^30 changes, and by single changes again up to MaxWideLV changes; its LVs
\* next to 0 and next to 2^30 are the ones passed around.
MaxSmallLVs == 1

MaxWideLV == 1073741826

WideLVs(cg) ==
  {v \in {0, 1, Pow30 - 1, Pow30, Pow30 + 1} : v < nextLV(cg)}

\* Parents of a new run: none, the heads, or one known LV.
WideParentChoices(cg) ==
  {<<>>, cg.heads} \cup {<<x>> : x \in WideLVs(cg)}

WideAdd(agent, len, parents) ==
  LET s == nextSeq[agent]
      r == add(docs[1], agent, s, s + len, parents)
  IN /\ trav.kind = "idle"
     /\ len <= MaxWideLV - nextLV(docs[1])
     /\ len = Pow30 \/ nextLV(docs[1]) < MaxSmallLVs \/ nextLV(docs[1]) >= Pow30
     /\ docs' = [docs EXCEPT ![1] = r.cg]
     /\ nextSeq' = [nextSeq EXCEPT ![agent] = s + len]
     /\ lastOp' = addOp("add", 1, r.ret, FALSE)
     /\ UNCHANGED <<rleVars, trav>>

\* findDominators(cg, versions) is called on three known LVs.
WideDominators(versions) ==
  /\ trav.kind = "idle"
  /\ trav' = [kind |-> "dominatorsWide", args |-> versions, queue |-> <<>>,
              st |-> findDominatorsWide(docs[1], versions), steps |-> 0, done |-> TRUE]
  /\ UNCHANGED <<docs, nextSeq, lastOp, rleVars>>

NextWide ==
  \/ \E agent \in Agents, len \in {1, Pow30} :
       \E parents \in WideParentChoices(docs[1]) : WideAdd(agent, len, parents)
  \/ \E versions \in [1..3 -> WideLVs(docs[1])] : WideDominators(versions)
  \/ TravReturn

SpecWide == Init /\ [][NextWide]_vars

\* Non-empty ranges, ascending and disjoint.
rangesAscending(r) ==
  /\ \A i \in 1..Len(r) : r[i][1] < r[i][2]
  /\ \A i \in 1..(Len(r) - 1) : r[i][2] <= r[i + 1][1]

\* C14: for any frontiers a and b of the graph, diff(cg, a, b) raises
\* nothing; aOnly is a list of disjoint ascending ranges covering exactly the
\* LVs reachable from a and not from b, bOnly the same with a and b swapped;
\* diff(cg, F, F) returns two empty lists.
C14_DiffExact ==
  \A p \in Peers :
    \A a \in Frontiers(docs[p]), b \in Frontiers(docs[p]) :
      LET d == diff(docs[p], a, b)
          ra == reachable(docs[p], a)
          rb == reachable(docs[p], b)
      IN /\ ~d.err
         /\ rangesAscending(d.aOnly) /\ covered(d.aOnly) = ra \ rb
         /\ rangesAscending(d.bOnly) /\ covered(d.bOnly) = rb \ ra
         /\ a = b => (d.aOnly = <<>> /\ d.bOnly = <<>>)

\* diff has returned two separate ranges on one side and a range on the
\* other, for frontiers with a common ancestor.
C14_Witness ==
  \E p \in Peers :
    \E a \in Frontiers(docs[p]), b \in Frontiers(docs[p]) :
      /\ Len(diff(docs[p], a, b).aOnly) = 2
      /\ Len(diff(docs[p], a, b).bOnly) = 1
      /\ reachable(docs[p], a) \cap reachable(docs[p], b) # {}

\* Lists of stored LVs given to findDominators: any order, repeats allowed.
MaxListLen == 4

VersionLists(cg) == UNION {[1..k -> LVs(cg)] : k \in 0..MaxListLen}

elements(s) == {s[i] : i \in 1..Len(s)}

\* C15: for any list vs of known LVs (any length, any order, duplicates
\* allowed) findDominators(cg, vs) is ascending without duplicates, is a
\* subset of vs, contains every member of vs (by versionContainsLV and by the
\* parent relation), and holds no member that is an ancestor of another:
\* the unique minimal dominating subset.
C15_DominatorsMinimal ==
  \A p \in Peers :
    \A vs \in VersionLists(docs[p]) :
      LET D == findDominators(docs[p], vs)
      IN /\ D = ascending(elements(D))
         /\ elements(D) \subseteq elements(vs)
         /\ \A v \in elements(vs) :
              v \in reachable(docs[p], D) /\ versionContainsLV(docs[p], D, v)
         /\ \A x \in elements(D), y \in elements(D) :
              x # y => x \notin ancestors(docs[p], y)

\* findDominators was given an unsorted list with a repeated LV and an LV
\* dominated by another, and returned two concurrent LVs.
C15_Witness ==
  \E p \in Peers :
    \E vs \in VersionLists(docs[p]) :
      /\ Len(vs) = MaxListLen
      /\ vs[1] > vs[2] /\ vs[2] = vs[3]
      /\ Len(findDominators(docs[p], vs)) = 2
      /\ Cardinality(elements(vs)) = 3

\* C16: versionContainsLV(cg, F, v) is true exactly when v is a member of F
\* or an ancestor, through stored and in-run parents, of a member of F; in
\* particular versionContainsLV(cg, [v], v) is true.
C16_ContainsIsAncestry ==
  \A p \in Peers :
    \A v \in LVs(docs[p]) :
      /\ versionContainsLV(docs[p], <<v>>, v)
      /\ \A F \in VersionLists(docs[p]) :
           versionContainsLV(docs[p], F, v) <=> v \in reachable(docs[p], F)

\* A two-member frontier contains an LV that lies in another run than a
\* member descending from it and is not that member's parent, and does not
\* contain a lower LV.
C16_Witness ==
  \E p \in Peers :
    \E F \in VersionLists(docs[p]), v \in LVs(docs[p]), w \in LVs(docs[p]) :
      /\ Len(F) = 2 /\ F[1] # F[2]
      /\ versionContainsLV(docs[p], F, v)
      /\ v # F[1] /\ v # F[2]
      /\ \E i \in 1..2 :
           /\ v \in ancestors(docs[p], F[i])
           /\ ~includes(lvToRawWithParents(docs[p], F[i]).parents, v)
           /\ rawFindEntryContaining(docs[p], F[i]) # rawFindEntryContaining(docs[p], v)
      /\ w < F[1] /\ w < F[2]
      /\ ~versionContainsLV(docs[p], F, w)

carriedBy(delta, n) ==
  UNION {{<<delta[j].agent, delta[j].seq + k>> : k \in 0..(delta[j].len - 1)} : j \in 1..n}

\* The graph of a peer that knows exactly the history of since.
peerAt(cg, since) ==
  mergePartialVersions(createCG, serializeDiff(cg, diff(cg, since, <<>>).aOnly))

\* C18: the delta serializeFromVersion(cg, since) is in causal order: each
\* parent of each entry is carried by an earlier entry of the delta or lies
\* in the history of since; a peer that knows exactly the history of since
\* applies the delta in order without error and then knows all that cg knows.
C18_DeltaCausalOrder ==
  \A p \in Peers :
    \A since \in Frontiers(docs[p]) :
      LET cg == docs[p]
          delta == serializeFromVersion(cg, since)
          hist == {lvToRaw(cg, v) : v \in reachable(cg, since)}
          base == peerAt(cg, since)
          r == mergePartialVersions(base.cg, delta)
      IN /\ \A i \in 1..Len(delta) :
              \A j \in 1..Len(delta[i].parents) :
                delta[i].parents[j] \in carriedBy(delta, i - 1) \cup hist
         /\ ~base.err /\ known(base.cg) = hist
         /\ ~r.err /\ known(r.cg) = known(cg)
         /\ carriedBy(delta, Len(delta)) = known(cg) \ hist

\* A delta of several entries since a version whose history is not a prefix
\* of the LVs: one entry has a parent in that history, another a parent
\* carried earlier in the delta.
C18_Witness ==
  \E p \in Peers :
    \E since \in Frontiers(docs[p]) :
      LET cg == docs[p]
          delta == serializeFromVersion(cg, since)
          hist == {lvToRaw(cg, v) : v \in reachable(cg, since)}
      IN /\ Len(delta) >= 2
         /\ \E v \in reachable(cg, since), w \in LVs(cg) \ reachable(cg, since) : w < v
         /\ \E i \in 1..Len(delta) : \E j \in 1..Len(delta[i].parents) :
              delta[i].parents[j] \in hist
         /\ \E i \in 1..Len(delta) : \E j \in 1..Len(delta[i].parents) :
              delta[i].parents[j] \in carriedBy(delta, i - 1)
         /\ ~mergePartialVersions(peerAt(cg, since).cg, delta).err

\* The seqs of an agent that a graph knows.
knownSeqs(cg, agent) == {s \in 0..(MaxSeq + 1) : hasVersion(cg, agent, s)}

\* C19: summarizeVersion(cg) has a key exactly for the agents with at least
\* one known change; each agent's list of [seq, seqEnd) ranges is non-empty,
\* ascending, pairwise disjoint, without touching ranges, and covers exactly
\* the seqs of the agent for which hasVersion is true.
C19_SummaryExact ==
  \A p \in Peers :
    LET s == summarizeVersion(docs[p])
    IN /\ DOMAIN s = {a \in Agents : knownSeqs(docs[p], a) # {}}
       /\ \A a \in DOMAIN s :
            /\ Len(s[a]) > 0
            /\ \A i \in 1..Len(s[a]) : s[a][i][1] < s[a][i][2]
            /\ \A i \in 1..(Len(s[a]) - 1) : s[a][i][2] < s[a][i + 1][1]
            /\ covered(s[a]) = knownSeqs(docs[p], a)

\* One agent has no change and no key; the other has two client entries
\* that touch without being one run (the later seq has the lower LV): one
\* range comes from two client entries.
C19_Witness ==
  \E p \in Peers, a \in Agents :
    LET s == summarizeVersion(docs[p])
        av == docs[p].agentToVersion[a]
    IN /\ DOMAIN s = {a}
       /\ Len(s[a]) = 1
       /\ Len(av) = 2 /\ av[1].version > av[2].version

\* The maximal [start, end) ranges of a set of seqs, ascending.
RECURSIVE rangesOf(_)
rangesOf(S) ==
  IF S = {} THEN <<>>
  ELSE LET lo == CHOOSE x \in S : \A y \in S : x <= y
           end == CHOOSE e \in (lo + 1)..(lo + Cardinality(S)) :
                    e \notin S /\ \A x \in lo..(e - 1) : x \in S
       IN <<<<lo, end>>>> \o rangesOf({x \in S : x > end})

\* Remote summaries: the empty one, every one-agent summary over the seqs
\* 0..MaxSeq, and the summary of each peer's graph.
SummaryChoices ==
  {[k \in {} |-> <<>>]}
    \cup {[k \in {a} |-> rangesOf(S)] : a \in Agents, S \in (SUBSET (0..MaxSeq)) \ {{}}}
    \cup {summarizeVersion(docs[q]) : q \in Peers}

\* The seqs a summary covers for an agent and cg does not know.
remoteOnly(cg, summary, k) == covered(summary[k]) \ knownSeqs(cg, k)

\* C20: the remainder returned by intersectWithSummary(cg, remote) is null
\* when cg knows every (agent, seq) the remote summary covers; otherwise it
\* has a key exactly for the agents with a covered seq unknown to cg, and each
\* agent's ranges are ascending, disjoint and cover exactly those seqs.
C20_RemainderExact ==
  \A p \in Peers :
    \A summary \in SummaryChoices :
      LET r == intersectWithSummary(docs[p], summary).remainder
          need == {k \in DOMAIN summary : remoteOnly(docs[p], summary, k) # {}}
      IN IF need = {} THEN r = None
         ELSE /\ r # None
              /\ DOMAIN r[1] = need
              /\ \A k \in need :
                   /\ rangesAscending(r[1][k])
                   /\ covered(r[1][k]) = remoteOnly(docs[p], summary, k)

\* One remote range starts before the agent's first client entry, spans it
\* and ends after it: the remainder has two ranges for the agent; and a
\* remote summary names an agent the graph has no changes of.
C20_Witness ==
  \E p \in Peers, a \in Agents, b \in Agents :
    \E summary \in SummaryChoices :
      LET r == intersectWithSummary(docs[p], summary).remainder
      IN /\ DOMAIN summary = {a} /\ Len(summary[a]) = 1
         /\ docs[p].agentToVersion[a] # <<>>
         /\ r # None /\ Len(r[1][a]) = 2
         /\ docs[p].agentToVersion[b] = <<>>
         /\ intersectWithSummary(docs[p], [k \in {b} |-> <<<<0, 1>>>>]).remainder
              = Some([k \in {b} |-> <<<<0, 1>>>>])

\* The LVs of cg whose (agent, seq) the graph other knows.
sharedWith(cg, other) ==
  {v \in LVs(cg) : hasVersion(other, lvToRaw(cg, v)[1], lvToRaw(cg, v)[2])}

\* C21: when the remote summary is that of a peer (whose known set is closed
\* under parents), the common versions returned by intersectWithSummary are
\* ascending, none an ancestor of another, and their history in cg is exactly
\* the set of local LVs whose (agent, seq) the summary covers.
C21_CommonIsSharedHistory ==
  \A p \in Peers, q \in Peers :
    LET cg == docs[p]
        common == intersectWithSummary(cg, summarizeVersion(docs[q])).common
    IN /\ common = ascending(elements(common))
       /\ \A x \in elements(common), y \in elements(common) :
            x # y => x \notin ancestors(cg, y)
       /\ reachable(cg, common) = sharedWith(cg, docs[q])

\* The remote peer knows the start of a local run and not its end, knows a
\* concurrent local change too, and the local graph numbers them its own way:
\* two common versions, one of them inside a run.
C21_Witness ==
  \E p \in Peers, q \in Peers :
    LET cg == docs[p]
        common == intersectWithSummary(cg, summarizeVersion(docs[q])).common
    IN /\ p # q
       /\ Len(common) = 2
       /\ \E i \in 1..2 : common[i] < rawFindEntryContaining(cg, common[i]).vEnd - 1
       /\ sharedWith(cg, docs[q]) # LVs(cg)

\* C22: nextSeqForAgent(cg, agent) is 0 for an agent without a known change,
\* and otherwise one more than the agent's largest known seq: a seq that is
\* not known and has no known seq above it, holes and spans added out of seq
\* order notwithstanding.
C22_NextSeqAboveAll ==
  \A p \in Peers, a \in Agents :
    LET n == nextSeqForAgent(docs[p], a)
        ks == knownSeqs(docs[p], a)
    IN /\ ks = {} => n = 0
       /\ ks # {} => (n - 1) \in ks
       /\ \A s \in ks : s < n

\* An agent's later seq was stored before its earlier one, with a hole
\* between the two: nextSeqForAgent is above the number of known seqs.
C22_Witness ==
  \E p \in Peers, a \in Agents :
    LET av == docs[p].agentToVersion[a]
    IN /\ Len(av) = 2
       /\ av[1].version > av[2].version
       /\ av[1].seqEnd < av[2].seq
       /\ nextSeqForAgent(docs[p], a) = av[2].seqEnd

\* The keys a list of simple keyed spans stores.
keysOf(l) == UNION {spanKeyStart(l[i])..(spanKeyEnd(l[i]) - 1) : i \in 1..Len(l)}

\* C23: the RLE round-trip law.  For each span kind (CG entry, client entry,
\* simple keyed span), a span of two keys or more split at any 1 <= i < len
\* gives a left half of length i and a right half of length len - i, the
\* right half appends to the left one, and the result equals the span split
\* in every field; no step throws.
C23_SplitRoundTrip ==
  rleOp.kind = "split" =>
    LET len == itemLen(rleOp.span, rleOp.entry)
        r == rleOp.res
    IN /\ ~r.err
       /\ itemLen(rleOp.span, r.start) = rleOp.i
       /\ itemLen(rleOp.span, r.end) = len - rleOp.i
       /\ r.ok
       /\ r.merged = rleOp.entry

C23_Witness ==
  /\ rleOp.kind = "split"
  /\ rleOp.span = "cg"
  /\ Len(rleOp.entry.parents) = 0
  /\ itemLen("cg", rleOp.entry) = 3
  /\ rleOp.i = 2
  /\ rleOp.res.end.parents = <<rleOp.entry.version + 1>>
  /\ rleOp.res.merged = rleOp.entry

\* The stored span l[i] restricted to [lo, hi).
restricted(item, lo, hi) ==
  [key |-> max2(item.key, lo),
   length |-> min2(item.key + item.length, hi) - max2(item.key, lo),
   val |-> item.val]

\* The items of l that share a key with [lo, hi), each restricted to it, in
\* list order.
RECURSIVE clippedFrom(_, _, _, _)
clippedFrom(l, i, lo, hi) ==
  IF i > Len(l) THEN <<>>
  ELSE (IF max2(l[i].key, lo) < min2(l[i].key + l[i].length, hi)
        THEN <<restricted(l[i], lo, hi)>> ELSE <<>>)
       \o clippedFrom(l, i + 1, lo, hi)

\* C24: over a sorted list of disjoint spans (gaps allowed) and any lo <= hi,
\* the clipped range iterator yields, in key order, one span for each stored
\* span that intersects [lo, hi), equal to that span restricted to [lo, hi);
\* so the keys yielded are the stored keys in [lo, hi).  It yields nothing
\* for an empty list or lo = hi, throws nothing and leaves the list as it was.
C24_IterRangeClipped ==
  rleOp.kind = "iter" =>
    LET lo == rleOp.startKey
        hi == rleOp.endKey
    IN /\ ~rleOp.err
       /\ rleOp.yielded = clippedFrom(rleOp.before, 1, lo, hi)
       /\ keysOf(rleOp.yielded) = keysOf(rleOp.before) \cap lo..(hi - 1)
       /\ sortedDisjoint(rleOp.yielded)
       /\ (Len(rleOp.before) = 0 \/ lo = hi) => rleOp.yielded = <<>>
       /\ rleList = rleOp.before

\* A sparse list; the range starts inside the first span and ends inside
\* the last: both boundary spans are yielded truncated.
C24_Witness ==
  /\ rleOp.kind = "iter"
  /\ Len(rleOp.before) = 2
  /\ rleOp.before[1].key + rleOp.before[1].length < rleOp.before[2].key
  /\ Len(rleOp.yielded) = 2
  /\ rleOp.yielded[1].key > rleOp.before[1].key
  /\ rleOp.yielded[2].length < rleOp.before[2].length
  /\ rleList = rleOp.before

\* The span shares a key with a span of the list.
overlapsAny(item, l) ==
  \E i \in 1..Len(l) :
    spanKeyStart(item) < spanKeyEnd(l[i]) /\ spanKeyStart(l[i]) < spanKeyEnd(item)

\* C28: rleInsert throws 'item already exists' and leaves the list as it was
\* whenever the new span shares a key with a stored span (at the new span's
\* start, middle or end; the stored span last or not); after an insert that
\* does not throw the list is sorted by key with pairwise disjoint ranges.
C28_InsertRejectsOverlap ==
  rleOp.kind = "insert" =>
    /\ overlapsAny(rleOp.item, rleOp.before) => (rleOp.err /\ rleList = rleOp.before)
    /\ ~rleOp.err => sortedDisjoint(rleList)

\* No two adjacent spans of the list satisfy tryAppend.
spansMerged(l) == \A i \in 1..(Len(l) - 1) : ~spanTryAppend(l[i], l[i + 1]).ok

\* C29: a span inserted before a stored span, which its left neighbour does
\* not take, is fused with its right neighbour whenever tryAppend(new, right)
\* succeeds, the right neighbour being the last span or not; and an insert
\* into a maximally merged list leaves it maximally merged, also when the new
\* span fills the gap between two spans exactly.
C29_InsertKeepsMerged ==
  (/\ rleOp.kind = "insert"
   /\ ~overlapsAny(rleOp.item, rleOp.before)
   /\ spansMerged(rleOp.before)) =>
    LET l == rleOp.before
        new == rleOp.item
        right == {i \in 1..Len(l) : spanKeyStart(l[i]) >= spanKeyEnd(new)}
        idx == IF right = {} THEN Len(l) + 1 ELSE CHOOSE i \in right : \A j \in right : i <= j
    IN /\ ~rleOp.err
       /\ (/\ idx <= Len(l)
           /\ spanTryAppend(new, l[idx]).ok
           /\ idx = 1 \/ ~spanTryAppend(l[idx - 1], new).ok)
          => rleList = [l EXCEPT ![idx] = spanTryAppend(new, l[idx]).item]
       /\ spansMerged(rleList)
       /\ keysOf(rleList) = keysOf(l) \cup keysOf(<<new>>)

\* The LVs of the ranges visit was called with.
visited(visits) == UNION {visits[i].range[1]..(visits[i].range[2] - 1) : i \in 1..Len(visits)}

\* C25: for any versions a and b of the graph, findConflicting returns a
\* version C in ascending order whose members are in the history of both a
\* and b; the ranges visited are non-empty, pairwise disjoint and cover
\* exactly the changes in the history of a or b that are not in the history
\* of C; when a and b share no ancestor, the calls flagged A cover a's
\* history, those flagged B cover b's, and C is empty.
C25_ConflictingExact ==
  \A a \in Frontiers(docs[1]), b \in Frontiers(docs[1]) :
    LET r == findConflicting(docs[1], a, b)
        ha == reachable(docs[1], a)
        hb == reachable(docs[1], b)
        vs == r.visits
    IN /\ r.common = ascending(elements(r.common))
       /\ elements(r.common) \subseteq ha \cap hb
       /\ \A i \in 1..Len(vs) : vs[i].range[1] < vs[i].range[2]
       /\ \A i \in 1..Len(vs), j \in 1..Len(vs) :
            i # j => (vs[i].range[2] <= vs[j].range[1] \/ vs[j].range[2] <= vs[i].range[1])
       /\ visited(vs) = (ha \cup hb) \ reachable(docs[1], r.common)
       /\ ha \cap hb = {} =>
            /\ r.common = <<>>
            /\ visited(SelectSeq(vs, LAMBDA x : x.flag = FlagA)) = ha
            /\ visited(SelectSeq(vs, LAMBDA x : x.flag = FlagB)) = hb
            /\ \A i \in 1..Len(vs) : vs[i].flag # FlagShared

\* One graph where two versions with a common ancestor give a non-empty
\* common version and ranges flagged A and B, and two versions without a
\* common ancestor give the empty one.
C25_Witness ==
  /\ \E a \in Frontiers(docs[1]), b \in Frontiers(docs[1]) :
       LET r == findConflicting(docs[1], a, b)
       IN /\ Len(r.common) > 0
          /\ \E i \in 1..Len(r.visits) : r.visits[i].flag = FlagA
          /\ \E i \in 1..Len(r.visits) : r.visits[i].flag = FlagB
  /\ \E a \in Frontiers(docs[1]), b \in Frontiers(docs[1]) :
       /\ Len(a) > 0 /\ Len(b) > 0
       /\ reachable(docs[1], a) \cap reachable(docs[1], b) = {}
       /\ findConflicting(docs[1], a, b).common = <<>>
       /\ Len(findConflicting(docs[1], a, b).visits) = 2

\* The LVs that the CG entries give to (agent, seq): none when it is unknown.
lvsOf(cg, agent, seq) ==
  {cg.entries[i].version + (seq - cg.entries[i].seq) :
     i \in {j \in 1..Len(cg.entries) :
              /\ cg.entries[j].agent = agent
              /\ cg.entries[j].seq <= seq
              /\ seq < cg.entries[j].seq + (cg.entries[j].vEnd - cg.entries[j].version)}}

\* C26: for an (agent, seq) the graph does not know, rawToLV and rawToLVSpan
\* throw, tryRawToLV returns null and hasVersion false; for a known one
\* hasVersion is true, nothing throws, tryRawToLV and rawToLV give its LV and
\* rawToLVSpan that LV and the end of its run; for an LV outside
\* [0, nextLV) findEntryContaining (hence lvToRaw) throws, for one inside it
\* returns the entry holding it.
C26_LookupsOfUnknownKeys ==
  \A p \in Peers :
    /\ \A agent \in Agents, seq \in (-1)..(MaxSeq + 1) :
         LET lvs == lvsOf(docs[p], agent, seq)
             sp == rawToLVSpan(docs[p], agent, seq)
         IN /\ lvs = {} =>
                 /\ rawToLVThrows(docs[p], agent, seq)
                 /\ sp.err
                 /\ tryRawToLV(docs[p], agent, seq) = None
                 /\ ~hasVersion(docs[p], agent, seq)
            /\ lvs # {} =>
                 /\ hasVersion(docs[p], agent, seq)
                 /\ ~rawToLVThrows(docs[p], agent, seq)
                 /\ ~sp.err
                 /\ lvs = {rawToLV(docs[p], agent, seq)}
                 /\ tryRawToLV(docs[p], agent, seq) = Some(rawToLV(docs[p], agent, seq))
                 /\ sp.span[1] = rawToLV(docs[p], agent, seq)
                 /\ sp.span[1] < sp.span[2]
                 /\ \A v \in sp.span[1]..(sp.span[2] - 1) :
                      v \in lvsOf(docs[p], agent, seq + (v - sp.span[1]))
    /\ \A v \in (-1)..(nextLV(docs[p]) + 1) :
         IF v \in LVs(docs[p])
         THEN /\ ~findEntryContainingThrows(docs[p], v)
              /\ findEntryContaining(docs[p], v).entry.version + findEntryContaining(docs[p], v).offset = v
              /\ v < findEntryContaining(docs[p], v).entry.vEnd
              /\ findEntryContaining(docs[p], v).offset >= 0
              /\ lvsOf(docs[p], lvToRaw(docs[p], v)[1], lvToRaw(docs[p], v)[2]) = {v}
         ELSE findEntryContainingThrows(docs[p], v)

\* An agent whose seqs start after a hole: the seq in the hole and the seq
\* past the end are unknown, a seq inside the run (offset > 0) is known.
C26_Witness ==
  \E p \in Peers, agent \in Agents :
    LET av == docs[p].agentToVersion[agent]
    IN /\ Len(av) = 1
       /\ av[1].seq > 0
       /\ rawToLVThrows(docs[p], agent, 0)
       /\ rawToLVSpan(docs[p], agent, av[1].seqEnd).err
       /\ av[1].seqEnd - av[1].seq >= 2
       /\ tryRawToLV(docs[p], agent, av[1].seq + 1) = Some(av[1].version + 1)
       /\ findEntryContainingThrows(docs[p], nextLV(docs[p]))

\* C27: merging a v3 delta in which an entry has a parent offset >= 0 that is
\* not inside the preceding entries of the delta, or a parent -k-1 with k
\* outside extRef, throws an error that names the offending index (the entry,
\* the parent value or k), and the entry is not inserted: the graph is what
\* the entries before it made it.
C27_MalformedDeltaRejected ==
  lastOp.kind = "mergeMalformed3" =>
    /\ lastOp.err
    /\ docs[lastOp.peer] = lastOp.expected
    /\ \E x \in {lastOp.index, lastOp.bad, -lastOp.bad - 1} :
         x \in elements(lastOp.thrown.args)

\* The LV the CG entries give to a known (agent, seq).
lvOf(cg, agent, seq) == CHOOSE v \in lvsOf(cg, agent, seq) : TRUE

\* advanceFrontier applied for each entry of a v2 delta in order, from entry i
\* on: the last change of the entry, the entry's parents.
RECURSIVE foldAdvance(_, _, _, _)
foldAdvance(cg, data, i, version) ==
  IF i > Len(data) THEN version
  ELSE foldAdvance(cg, data, i + 1,
         advanceFrontier(version,
                         lvOf(cg, data[i].agent, data[i].seq + data[i].len - 1),
                         [k \in 1..Len(data[i].parents) |->
                            lvOf(cg, data[i].parents[k][1], data[i].parents[k][2])]))

\* No change of the delta is known to cg.
allNew(cg, data) ==
  \A i \in 1..Len(data) : \A s \in data[i].seq..(data[i].seq + data[i].len - 1) :
    lvsOf(cg, data[i].agent, s) = {}

\* C30, as stated: advanceVersionFromSerialized(cg, delta, version) returns
\* the version obtained by applying advanceFrontier for each entry of the
\* delta in order, without the changes of the delta having been inserted
\* into cg (here: a delta that cg can merge, taken before it is merged).
C30_AdvanceWithoutInserting ==
  \A dest \in Peers, src \in Peers :
    \A ranges \in RangeChoices(docs[src]) :
      LET delta == serializeDiff(docs[src], ranges)
          merged == mergePartialVersions(docs[dest], delta)
      IN (dest # src /\ ~merged.err) =>
           /\ ~advanceVersionFromSerialized(docs[dest], delta, docs[dest].heads).err
           /\ advanceVersionFromSerialized(docs[dest], delta, docs[dest].heads).version
                = foldAdvance(merged.cg, delta, 1, docs[dest].heads)

\* C30, amended: on a graph that holds the changes of the delta (it has been
\* merged), advanceVersionFromSerialized(cg, delta, version) throws nothing
\* and returns advanceFrontier applied for each entry in order, and so does
\* the v3 function on the v3 delta; from the heads before the merge of a
\* delta of new changes this is the heads after it.  On a graph that lacks
\* the last change of an entry, or a parent, it throws 'Unknown ID'.
C30_AdvanceAfterInserting ==
  \A dest \in Peers, src \in Peers :
    \A ranges \in RangeChoices(docs[src]) :
      LET delta == serializeDiff(docs[src], ranges)
          delta3 == serializeDiff3(docs[src], ranges)
          merged == mergePartialVersions(docs[dest], delta)
      IN (dest # src /\ ~merged.err) =>
           /\ \A version \in {docs[dest].heads, <<>>} :
                /\ advanceVersionFromSerialized(merged.cg, delta, version)
                     = [version |-> foldAdvance(merged.cg, delta, 1, version), err |-> FALSE]
                /\ advanceVersionFromSerialized3(merged.cg, delta3, version)
                     = [version |-> foldAdvance(merged.cg, delta, 1, version), err |-> FALSE]
           /\ allNew(docs[dest], delta) =>
                advanceVersionFromSerialized(merged.cg, delta, docs[dest].heads).version
                  = merged.cg.heads
           /\ (\E i \in 1..Len(delta) :
                 lvsOf(docs[dest], delta[i].agent, delta[i].seq + delta[i].len - 1) = {})
                => /\ advanceVersionFromSerialized(docs[dest], delta, docs[dest].heads).err
                   /\ advanceVersionFromSerialized3(docs[dest], delta3, docs[dest].heads).err

\* A delta of two entries or more, all new to a graph that is not empty:
\* before the merge the call throws, after it the call gives the new heads.
C30_Witness ==
  \E dest \in Peers, src \in Peers :
    \E ranges \in RangeChoices(docs[src]) :
      LET delta == serializeDiff(docs[src], ranges)
          merged == mergePartialVersions(docs[dest], delta)
      IN /\ dest # src
         /\ ~merged.err
         /\ Len(docs[dest].entries) > 0
         /\ Len(delta) >= 2
         /\ allNew(docs[dest], delta)
         /\ advanceVersionFromSerialized(docs[dest], delta, docs[dest].heads).err
         /\ advanceVersionFromSerialized(merged.cg, delta, docs[dest].heads).version
              = merged.cg.heads
         /\ merged.cg.heads # docs[dest].heads

\* The public ids of the LVs of [s, e) in cg.
idsIn(cg, s, e) == {lvToRaw(cg, v) : v \in s..(e - 1)}

\* The (agent, seq) pairs carried by a v3 delta.
carriedBy3(data) ==
  UNION {{<<data.entries[j].agent, data.entries[j].seq + k>> :
            k \in 0..(data.entries[j].len - 1)} : j \in 1..Len(data.entries)}

\* C31: mergePartial(cg, delta) returns [s, e) with s = nextLV before the
\* call and e = nextLV after it; the LVs of [s, e) are exactly those given to
\* the delta's versions that were not known before, one each; the LVs below s
\* keep their ids; a delta whose versions are all known inserts nothing and
\* raises nothing. The v3 merge inserts the same LVs (its return value is the
\* list of entry offsets, the inserted spans are what its iterator yields).
C31_MergePartialRange ==
  \A dest \in Peers, src \in Peers :
    \A ranges \in RangeChoices(docs[src]) :
      /\ LET d == serializeDiff(docs[src], ranges)
             r == mergePartialVersions(docs[dest], d)
             fresh == carriedBy(d, Len(d)) \ known(docs[dest])
         IN /\ ~r.err =>
                 /\ r.range = <<nextLV(docs[dest]), nextLV(r.cg)>>
                 /\ idsIn(r.cg, r.range[1], r.range[2]) = fresh
                 /\ r.range[2] - r.range[1] = Cardinality(fresh)
                 /\ \A v \in LVs(docs[dest]) : lvToRaw(r.cg, v) = lvToRaw(docs[dest], v)
            /\ fresh = {} => (~r.err /\ r.range[1] = r.range[2] /\ r.cg = docs[dest])
      /\ LET d == serializeDiff3(docs[src], ranges)
             r == mergePartialVersions3(docs[dest], d)
             fresh == carriedBy3(d) \ known(docs[dest])
         IN /\ ~r.err =>
                 /\ idsIn(r.cg, nextLV(docs[dest]), nextLV(r.cg)) = fresh
                 /\ nextLV(r.cg) - nextLV(docs[dest]) = Cardinality(fresh)
                 /\ UNION {r.yielded[i].version..(r.yielded[i].vEnd - 1) :
                             i \in 1..Len(r.yielded)}
                      = nextLV(docs[dest])..(nextLV(r.cg) - 1)
                 /\ Len(r.entryOffsets) = Len(d.entries)
            /\ fresh = {} => (~r.err /\ r.yielded = <<>> /\ r.cg = docs[dest])

\* A peer has just merged a delta, and a two-entry delta of the other peer
\* now has a first entry it knows in full and a second one it does not know:
\* merging it inserts just the second.
C31_Witness ==
  /\ lastOp.kind = "mergePartial"
  /\ \E src \in Peers \ {lastOp.peer} :
       \E ranges \in RangeChoices(docs[src]) :
         LET d == serializeDiff(docs[src], ranges)
             r == mergePartialVersions(docs[lastOp.peer], d)
         IN /\ Len(d) = 2
            /\ carriedBy(d, 1) \subseteq known(docs[lastOp.peer])
            /\ ~r.err
            /\ r.range[1] > 0
            /\ r.range[2] > r.range[1]

\* The public ids of the parents lvToRawWithParents reports for v.
pubParents(cg, v) ==
  {lvToRaw(cg, w) : w \in elements(lvToRawWithParents(cg, v).parents)}

\* C32: the parents reported for a version do not depend on how runs are
\* merged: lvToRawWithParents(cg, v) gives the run's stored parents when v is
\* the first LV of its run and [v - 1] otherwise, where v - 1 is the change
\* (agent, seq - 1) of the same run; two peers that know a change report the
\* same public parents for it however each stores its run; and a serializeDiff
\* entry starting at offset > 0 inside a run carries (agent, seq - 1) as its
\* only parent, an entry starting a run the public ids of the stored parents.
C32_ParentsIndependentOfRuns ==
  /\ \A p \in Peers : \A v \in LVs(docs[p]) :
       LET f == findEntryContaining(docs[p], v)
           r == lvToRawWithParents(docs[p], v)
       IN /\ <<r.agent, r.seq>> = lvToRaw(docs[p], v)
          /\ f.offset = 0 => r.parents = f.entry.parents
          /\ f.offset > 0 =>
                /\ r.parents = <<v - 1>>
                /\ lvToRaw(docs[p], v - 1) = <<r.agent, r.seq - 1>>
  /\ \A p \in Peers, q \in Peers :
       \A id \in known(docs[p]) \cap known(docs[q]) :
         pubParents(docs[p], rawToLV(docs[p], id[1], id[2]))
           = pubParents(docs[q], rawToLV(docs[q], id[1], id[2]))
  /\ \A p \in Peers : \A ranges \in RangeChoices(docs[p]) :
       LET d == serializeDiff(docs[p], ranges)
       IN \A i \in 1..Len(d) :
            LET v == rawToLV(docs[p], d[i].agent, d[i].seq)
                f == findEntryContaining(docs[p], v)
            IN /\ f.offset > 0 => d[i].parents = <<<<d[i].agent, d[i].seq - 1>>>>
               /\ f.offset = 0 => d[i].parents = lvToRawList(docs[p], f.entry.parents)
               /\ elements(d[i].parents) = pubParents(docs[p], v)

\* After a partial merge, one peer stores a change inside a run and the other
\* stores the same change, under another LV, as the first LV of a run with a
\* stored parent, and a delta of the first peer starts at that change.
C32_Witness ==
  /\ lastOp.kind = "mergePartial"
  /\ \E p \in Peers, q \in Peers :
       \E id \in known(docs[p]) \cap known(docs[q]) :
         LET v == rawToLV(docs[p], id[1], id[2])
             w == rawToLV(docs[q], id[1], id[2])
             f == findEntryContaining(docs[p], v)
             g == findEntryContaining(docs[q], w)
         IN /\ f.offset > 0
            /\ g.offset = 0
            /\ Len(g.entry.parents) = 1
            /\ v # w
            /\ \E ranges \in RangeChoices(docs[p]) :
                 /\ Len(ranges) >= 1
                 /\ ranges[1][1] = v

\* The position of LV p in the concatenation of ascending disjoint ranges.
positionIn(ranges, p) == Cardinality({w \in covered(ranges) : w < p})

\* C33: v3 delta round trip: for ascending disjoint ranges of cg,
\* serializeDiff3 encodes each parent inside the ranges as its position
\* (>= 0) in the concatenation of the ranges and each other parent as -k-1
\* with extRef[k] its public id; and merging the delta with
\* mergePartialVersions3 into a graph that knows every extRef version raises
\* nothing and gives every carried change the public parents it has in cg.
C33_Delta3RoundTrip ==
  \A src \in Peers : \A ranges \in RangeChoices(docs[src]) :
    LET d == serializeDiff3(docs[src], ranges)
    IN /\ \A i \in 1..Len(d.entries) :
            LET e == d.entries[i]
                v == rawToLV(docs[src], e.agent, e.seq)
                ps == lvToRawWithParents(docs[src], v).parents
            IN /\ Len(e.parents) = Len(ps)
               /\ \A j \in 1..Len(ps) :
                    IF ps[j] \in covered(ranges)
                    THEN e.parents[j] >= 0 /\ e.parents[j] = positionIn(ranges, ps[j])
                    ELSE /\ e.parents[j] < 0
                         /\ -e.parents[j] <= Len(d.extRef)
                         /\ d.extRef[-e.parents[j]] = lvToRaw(docs[src], ps[j])
       /\ \A dest \in Peers :
            elements(d.extRef) \subseteq known(docs[dest]) =>
              LET r == mergePartialVersions3(docs[dest], d)
              IN /\ ~r.err
                 /\ \A id \in carriedBy3(d) :
                      /\ hasVersion(r.cg, id[1], id[2])
                      /\ pubParents(r.cg, rawToLV(r.cg, id[1], id[2]))
                           = pubParents(docs[src], rawToLV(docs[src], id[1], id[2]))

\* A peer has just merged a v3 delta of the other peer whose entries name
\* one parent by its position in the delta and one through extRef, and the
\* newest change of the merging peer is the delta's last.
C33_Witness ==
  /\ lastOp.kind = "mergePartial3"
  /\ \E src \in Peers \ {lastOp.peer} :
       \E ranges \in RangeChoices(docs[src]) :
         LET d == serializeDiff3(docs[src], ranges)
             cg == docs[lastOp.peer]
             n == Len(d.entries)
         IN /\ n >= 2
            /\ Len(d.extRef) >= 1
            /\ \E i \in 1..n : \E j \in 1..Len(d.entries[i].parents) :
                 d.entries[i].parents[j] >= 0
            /\ nextLV(cg) >= 3
            /\ lvToRaw(cg, nextLV(cg) - 1)
                 = <<d.entries[n].agent, d.entries[n].seq + d.entries[n].len - 1>>
            /\ docs[src].entries # cg.entries

Versions(cg) == {F \in Frontiers(cg) : findDominators(cg, F) = F}

\* What merging a delta into dest must leave: no error, dest knows what it
\* knew and what the delta carries and nothing else, every known (agent, seq)
\* has exactly one LV, and checkCG passes.
mergedSafely(dest, r, carried) ==
  /\ ~r.err
  /\ known(r.cg) = known(dest) \cup carried
  /\ \A id \in known(r.cg) : Cardinality(lvsOf(r.cg, id[1], id[2])) = 1
  /\ checkCG(r.cg)

\* C35: applying a stale delta is safe. src computes the delta for dest from
\* a summary dest gave when it knew only the history of some earlier version
\* of its graph; whatever dest has received since (other changes, some of the
\* delta's versions, prefixes of the delta's runs), mergePartial of the delta
\* (v2 or v3) raises no error, dest then knows exactly the union of what it
\* knew and what the delta carries, every (agent, seq) has exactly one LV, and
\* checkCG passes on dest.
C35_StaleDeltaSafe ==
  \A dest \in Peers, src \in Peers :
    dest # src =>
      \A since \in Versions(docs[dest]) :
        With(mergeLocalRanges(peerAt(docs[dest], since).cg, docs[src]), LAMBDA ranges :
          /\ With(serializeDiff(docs[src], ranges), LAMBDA d :
               With(mergePartialVersions(docs[dest], d), LAMBDA r :
                 mergedSafely(docs[dest], r, carriedBy(d, Len(d)))))
          /\ With(serializeDiff3(docs[src], ranges), LAMBDA d3 :
               With(mergePartialVersions3(docs[dest], d3), LAMBDA r :
                 mergedSafely(docs[dest], r, carriedBy3(d3)))))

\* dest has received changes since it gave its summary: the delta computed
\* from the summary carries a run of which dest by now knows a prefix, and
\* dest also has a change of its own that src lacks; merging the delta
\* inserts the rest of the run only.
C35_Witness ==
  /\ lastOp.kind \in {"mergePartial", "mergePartial3"}
  /\ \E src \in Peers \ {lastOp.peer} :
       \E since \in Versions(docs[lastOp.peer]) :
         LET dest == docs[lastOp.peer]
             ranges == mergeLocalRanges(peerAt(dest, since).cg, docs[src])
             d == serializeDiff(docs[src], ranges)
             r == mergePartialVersions(dest, d)
         IN /\ known(peerAt(dest, since).cg) # known(dest)
            /\ known(dest) \ known(docs[src]) # {}
            /\ \E i \in 1..Len(d) :
                 /\ d[i].len >= 2
                 /\ hasVersion(dest, d[i].agent, d[i].seq)
                 /\ ~hasVersion(dest, d[i].agent, d[i].seq + d[i].len - 1)
            /\ r.range[2] - r.range[1] = 1

\* The LVs of the ranges findConflicting visits with the given flag.
visitedWith(visits, flag) == visited(SelectSeq(visits, LAMBDA x : x.flag = flag))

\* C36: findConflicting agrees with diff: for any frontiers a and b the
\* ranges visited with flag A cover exactly the LVs of diff(cg, a, b).aOnly,
\* the ranges visited with flag B exactly those of bOnly, and the ranges
\* visited with flag Shared lie in the history of both a and b.
C36_ConflictingAgreesWithDiff ==
  \A a \in Frontiers(docs[1]), b \in Frontiers(docs[1]) :
    LET vs == findConflicting(docs[1], a, b).visits
        d == diff(docs[1], a, b)
    IN /\ ~d.err
       /\ visitedWith(vs, FlagA) = covered(d.aOnly)
       /\ visitedWith(vs, FlagB) = covered(d.bOnly)
       /\ visitedWith(vs, FlagShared)
            \subseteq reachable(docs[1], a) \cap reachable(docs[1], b)

\* Two versions of one graph for which findConflicting visits ranges with
\* each of the three flags: each side has changes of its own, and a shared
\* change lies above the common version returned.
C36_Witness ==
  /\ lastOp.kind = "add"
  /\ \E a \in Frontiers(docs[1]), b \in Frontiers(docs[1]) :
       LET r == findConflicting(docs[1], a, b)
       IN /\ visitedWith(r.visits, FlagA) # {}
          /\ visitedWith(r.visits, FlagB) # {}
          /\ visitedWith(r.visits, FlagShared) # {}
          /\ diff(docs[1], a, b).aOnly # <<>>

\* The LVs queued by the traversal (for findDominators2 as encoded, 2v or
\* 2v + 1), and the highest of them, which the next iteration dequeues.
queuedKeys(t) ==
  IF t.kind = "conflicting"
  THEN UNION {elements(t.st.points[i].v) : i \in 1..Len(t.st.points)}
  ELSE elements(t.queue)

topKey(t) ==
  IF t.kind = "conflicting"
  THEN (IF Len(t.st.points) = 0 \/ Len(t.st.points[1].v) = 0 THEN -1
        ELSE t.st.points[1].v[1])
  ELSE IF Len(t.queue) = 0 THEN -1
  ELSE t.queue[1]

\* What the call returns once its loop has ended.
travResult(t) ==
  IF t.kind = "diff"
  THEN [aOnly |-> Reverse(t.st.aOnly), bOnly |-> Reverse(t.st.bOnly), err |-> t.st.err]
  ELSE IF t.kind = "contains" THEN t.st.ret[1]
  ELSE IF t.kind = "dominators" THEN t.st.out
  ELSE [common |-> t.st.common[1], visits |-> t.st.visits]

\* What the same call returns when its loop is run in one go.
travExpected(cg, t) ==
  IF t.kind = "diff" THEN diff(cg, t.args[1], t.args[2])
  ELSE IF t.kind = "contains" THEN versionContainsLV(cg, t.args[1], t.args[2][1])
  ELSE IF t.kind = "dominators" THEN findDominators2(cg, t.args[1])
  ELSE findConflicting(cg, t.args[1], t.args[2])

\* C37: on every graph built by add and for every input of known LVs, diff,
\* versionContainsLV, findDominators2 and findConflicting terminate: each
\* iteration of the loop that does not return dequeues the highest queued
\* item and leaves only strictly smaller ones queued, the loop takes at most
\* one iteration per entry of the graph (and one more to return), every call
\* started returns, and it returns what the loop computes.
C37_TraversalsTerminate ==
  /\ [][(trav.kind # "idle" /\ trav'.steps = trav.steps + 1) =>
          /\ ~trav.done
          /\ ~trav'.done => \A k \in queuedKeys(trav') : k < topKey(trav)]_vars
  /\ [](trav.steps <= Len(docs[1].entries) + 1)
  /\ [](trav.kind # "idle" /\ trav.done => travResult(trav) = travExpected(docs[1], trav))
  /\ (trav.kind # "idle" ~> trav.done)

\* findConflicting has returned after three iterations of its loop, having
\* visited ranges with flag A and with flag B.
C37_Witness ==
  /\ trav.kind = "conflicting"
  /\ trav.done
  /\ trav.steps >= 3
  /\ \E i \in 1..Len(trav.st.visits) : trav.st.visits[i].flag = FlagA
  /\ \E i \in 1..Len(trav.st.visits) : trav.st.visits[i].flag = FlagB

\* C38: the queue encoding of findDominators2 is lossless over the whole LV
\* range: for every LV v of the graph, 2^30 and above included, decoding the
\* queued value 2v or 2v + 1 gives back v and the input flag, so that
\* findDominators of known LVs throws nothing and reports only LVs that were
\* passed in.
C38_EncodingLossless ==
  /\ \A v \in WideLVs(docs[1]), bit \in {0, 1} :
       /\ shr1Wide(encode(v, bit)) = v
       /\ encode(v, bit).bit = bit
  /\ trav.kind = "dominatorsWide" =>
       /\ ~trav.st.err
       /\ elements(trav.st.ret) \subseteq elements(trav.args)
       /\ \A i \in 1..Len(trav.st.out) : trav.st.out[i].v \in elements(trav.args)

\* The same for the LVs below 2^30, and there the queue of halves and bits
\* reports what findDominators2 reports with 2v and 2v + 1 as numbers.
WideAgreesBelowPow30 ==
  /\ \A v \in WideLVs(docs[1]), bit \in {0, 1} :
       v < Pow30 => shr1Wide(encode(v, bit)) = v /\ shr1(2 * v + bit) = v
  /\ (trav.kind = "dominatorsWide" /\ \A i \in 1..3 : trav.args[i] < Pow30) =>
       /\ ~trav.st.err
       /\ trav.st.out = findDominators2(docs[1], trav.args)
       /\ trav.st.ret = findDominators(docs[1], trav.args)

====
